---------------------------- MODULE Spec2Model ----------------------------
(***************************************************************************)
(* A model of the retrieval pipeline of rag-server-misc: the text chunker  *)
(* (rag_server/chunking.py), the indexing path of the query engine         *)
(* (rag_server/query_engine.py) over the vector store                      *)
(* (rag_server/vector_db/qdrant_client.py) and the BM25 sparse encoder     *)
(* (rag_server/sparse_encoder.py).                                         *)
(*                                                                         *)
(* Texts are sequences of one-character strings.  Python's str operations  *)
(* (slicing with negative indices, strip, find, join, re.split) are        *)
(* operators that compute what the Python operations compute.              *)
(***************************************************************************)
EXTENDS Integers, Sequences, FiniteSets, TLC

(***************************************************************************)
(* Bounds of the model.                                                    *)
(***************************************************************************)
MaxLen == 5
MaxChunkSize == 3
MaxOverlap == 3
MaxMinChunk == 3

\* The characters texts are drawn from: a letter, a sentence terminator, a blank.
Chars == {"a", ".", " "}

Min(a, b) == IF a <= b THEN a ELSE b
Max(a, b) == IF a >= b THEN a ELSE b

\* All texts of length 0..n over Chars.
TextsUpTo(n) == UNION {[1..k -> Chars] : k \in 0..n}

(***************************************************************************)
(* Python string primitives.                                               *)
(***************************************************************************)
\* \s of the re module and the characters str.strip() removes.
IsSpace(c) == c \in {" ", "\n", "\t"}

\* The character class [.!?] of sentence_pattern.
IsTerminator(c) == c \in {".", "!", "?"}

\* A slice index as Python normalises it: negative counts from the end,
\* then clamped to 0..len.
NormIndex(i, len) == IF i < 0 THEN Max(len + i, 0) ELSE Min(i, len)

\* s[a:b], 0-based half-open, with Python's treatment of negative and
\* out-of-range indices.
Slice(s, a, b) ==
    LET lo == NormIndex(a, Len(s))
        hi == NormIndex(b, Len(s))
    IN  IF lo >= hi THEN <<>> ELSE SubSeq(s, lo + 1, hi)

\* s.strip()
Strip(s) ==
    LET keep == {i \in 1..Len(s) : ~IsSpace(s[i])}
    IN  IF keep = {} THEN <<>>
        ELSE LET lo == CHOOSE i \in keep : \A j \in keep : i <= j
                 hi == CHOOSE i \in keep : \A j \in keep : i >= j
             IN  SubSeq(s, lo, hi)

\* s.find(sub, from): the lowest 0-based index >= from (normalised) at which
\* sub occurs in s, or -1.
Find(s, sub, from) ==
    LET lo == NormIndex(from, Len(s))
        hits == {i \in lo..(Len(s) - Len(sub)) :
                    (from <= Len(s)) /\ SubSeq(s, i + 1, i + Len(sub)) = sub}
    IN  IF hits = {} THEN -1
        ELSE CHOOSE i \in hits : \A j \in hits : i <= j

\* " ".join(parts)
RECURSIVE Join(_)
Join(parts) ==
    IF Len(parts) = 0 THEN <<>>
    ELSE IF Len(parts) = 1 THEN parts[1]
    ELSE parts[1] \o <<" ">> \o Join(Tail(parts))

\* Is sub a (contiguous) substring of s: Python's `sub in s`.
Contains(s, sub) == \E i \in 0..(Len(s) - Len(sub)) : SubSeq(s, i + 1, i + Len(sub)) = sub

\* The first index >= p (1-based) of s that holds no whitespace, or Len(s)+1.
RECURSIVE SkipSpace(_, _)
SkipSpace(s, p) ==
    IF p > Len(s) \/ ~IsSpace(s[p]) THEN p ELSE SkipSpace(s, p + 1)

\* sentence_pattern.split(text) for sentence_pattern = (?<=[.!?])\s+ :
\* every maximal whitespace run that directly follows a terminator is a
\* separator; the pieces between separators are returned, empty ones included.
RECURSIVE SplitFrom(_, _, _)
SplitFrom(s, p, cur) ==
    IF p > Len(s) THEN <<cur>>
    ELSE IF IsSpace(s[p]) /\ p > 1 /\ IsTerminator(s[p - 1])
         THEN <<cur>> \o SplitFrom(s, SkipSpace(s, p), <<>>)
         ELSE SplitFrom(s, p + 1, Append(cur, s[p]))

SplitSentences(s) == SplitFrom(s, 1, <<>>)

(***************************************************************************)
(* HybridChunker: one call of chunk(text) or chunk_with_positions(text).   *)
(*   text, cfg     the argument and the chunker's configuration            *)
(*   api           the method called                                       *)
(*   pc            where the call is: "call" at entry, a loop name while   *)
(*                 in that method's loop, "done" after return              *)
(*   the other variables are the locals of the running method              *)
(*   seed, carried history of the sentence loop: seed is the overlap the  *)
(*                 current buffer was started with when the buffer closed  *)
(*                 before it was emitted (else empty); carried[k] is the   *)
(*                 seed of the buffer that became chunks[k]                *)
(***************************************************************************)
VARIABLES text, cfg, api, pc, start, chunks, sentences, pos,
          current_chunk, current_length, current_start, overlap_sentences,
          seed, carried, result

chunker_vars == <<text, cfg, api, pc, start, chunks, sentences, pos,
                  current_chunk, current_length, current_start,
                  overlap_sentences, seed, carried, result>>

(***************************************************************************)
(* RAGQueryEngine over the vector store: index calls, one at a time.       *)
(*   engine_cfg    the configuration of the engine's chunker               *)
(*   store         the vector store: for every existing collection the     *)
(*                 set of its points [id, content, metadata, vector]       *)
(*   clock         the time of day, read by index for ingested_at          *)
(*   ipc           where the running index call is: "idle" (none runs),    *)
(*                 "docs" (in the loop over the documents), "embed"        *)
(*                 (awaiting embed_batch), "insert" (before the insert)    *)
(*   request, collection_name, doc_pos, all_chunks, indexed_doc_ids,       *)
(*   chunks_with_meta, embeddings    the argument and locals of index      *)
(*   calls         history: one record for every index call that ended     *)
(*   store_before  history: the store when the last index call began       *)
(***************************************************************************)
VARIABLES engine_cfg, store, clock, ipc, request, collection_name, doc_pos,
          all_chunks, indexed_doc_ids, chunks_with_meta, embeddings, calls,
          store_before

index_vars == <<engine_cfg, store, clock, ipc, request, collection_name,
                doc_pos, all_chunks, indexed_doc_ids, chunks_with_meta,
                embeddings, calls,
                store_before>>

(***************************************************************************)
(* BM25SparseEncoder.                                                      *)
(*   vocab_size, idf, avg_doc_length, doc_count   the encoder's fields     *)
(*   fits          history: the number of update_idf_from_corpus calls     *)
(*   encoded       the outcome of the last encode call                     *)
(*   encoded_at    history: the value of fits when encode was last called  *)
(*   corpus        history: the documents of the last update call          *)
(***************************************************************************)
VARIABLES vocab_size, idf, avg_doc_length, doc_count, fits, encoded,
          encoded_at, corpus

encoder_vars == <<vocab_size, idf, avg_doc_length, doc_count, fits, encoded,
                  encoded_at, corpus>>

(***************************************************************************)
(* generate_doc_id and the chunk id of index, called on their own.         *)
(*   id_metadata, id_content   the arguments of generate_doc_id            *)
(*   id_chunk      a chunk with its metadata, as index holds it            *)
(*   id_called     the functions that have been called                     *)
(*   id_doc, id_record   the document id and the chunk's record id         *)
(***************************************************************************)
VARIABLES id_metadata, id_content, id_chunk, id_called, id_doc, id_record

identity_vars == <<id_metadata, id_content, id_chunk, id_called, id_doc,
                   id_record>>

(***************************************************************************)
(* EmbeddingClient.embed_batch (embeddings.py), one call.                  *)
(*   emb_pc      "idle", "request" (a POST is under way), "sleep",         *)
(*               "returned" or "raised"                                    *)
(*   emb_texts   the number of texts of the call                           *)
(*   attempt     the loop variable of the retry loop                       *)
(*   responses   history: what the provider answered to each request       *)
(*   sleeps      history: the delays slept, in order                       *)
(*   emb_result  the number of vectors returned, or the error raised       *)
(***************************************************************************)
VARIABLES emb_pc, emb_texts, attempt, responses, sleeps, emb_result

embed_vars == <<emb_pc, emb_texts, attempt, responses, sleeps, emb_result>>

\* Callers of RAGQueryEngine.ensure_collection against one Qdrant server:
\* the collections the server holds, in the order of their creation, the
\* store's enable_hybrid, and for each caller its position, the collection
\* it asked for, what collection_exists told it and how the server answered
\* its create_collection.
VARIABLES collections, enable_hybrid, ens_pc, ens_name, ens_seen, ens_answer

ensure_vars == <<collections, enable_hybrid, ens_pc, ens_name, ens_seen,
                 ens_answer>>

\* One query against one collection of a QdrantVectorDB: whether the store
\* has a sparse encoder (it has one exactly when built with enable_hybrid),
\* the collection's vector configuration, its points with their dense and
\* sparse similarity to the query, the arguments limit and min_score, and
\* what search and hybrid_search returned for them.
VARIABLES sparse_encoder, target, stored_points, limit, min_score,
          search_result, hybrid_result

search_vars == <<sparse_encoder, target, stored_points, limit, min_score,
                 search_result, hybrid_result>>

\* The calls of RAGQueryEngine.delete_document, in order: the collection,
\* the document id, what the call returned, and how many records of that
\* document the collection held when it returned.
VARIABLES deletions

delete_vars == <<deletions>>

\* One call of RAGQueryEngine.search: the request's min_score and limit,
\* the configured similarity_threshold (in hundredths), the position of the
\* call, the number of embedding requests it made and its results.
VARIABLES search_request, similarity_threshold, srch_pc, embed_count,
          search_response

engine_vars == <<search_request, similarity_threshold, srch_pc, embed_count,
                 search_response>>

\* One call of TierRunner.run_tier: the indexing configuration, the tier's
\* source type and URLs, the position of the call, the URL being fetched and
\* the attempt of its fetch, the HTTP requests made and the sleeps taken so
\* far, the FetchResults collected and the IndexingResult.
VARIABLES indexing_config, tier_source_type, url_items, tier_pc, fetch_pos,
          fetch_attempt, http_log, tier_sleeps, fetch_results,
          indexing_result

tier_vars == <<indexing_config, tier_source_type, url_items, tier_pc,
               fetch_pos, fetch_attempt, http_log, tier_sleeps,
               fetch_results, indexing_result>>

vars == <<chunker_vars, index_vars, encoder_vars, identity_vars, embed_vars,
          ensure_vars, search_vars, delete_vars, engine_vars, tier_vars>>

not_chunker == <<index_vars, encoder_vars, identity_vars, embed_vars,
                 ensure_vars, search_vars, delete_vars, engine_vars,
                 tier_vars>>
not_index == <<chunker_vars, encoder_vars, identity_vars, embed_vars,
               ensure_vars, search_vars, delete_vars, engine_vars, tier_vars>>
not_encoder == <<chunker_vars, index_vars, identity_vars, embed_vars,
                 ensure_vars, search_vars, delete_vars, engine_vars,
                 tier_vars>>
not_identity == <<chunker_vars, index_vars, encoder_vars, embed_vars,
                  ensure_vars, search_vars, delete_vars, engine_vars,
                  tier_vars>>
not_embed == <<chunker_vars, index_vars, encoder_vars, identity_vars,
               ensure_vars, search_vars, delete_vars, engine_vars, tier_vars>>
not_ensure == <<chunker_vars, index_vars, encoder_vars, identity_vars,
                embed_vars, search_vars, delete_vars, engine_vars, tier_vars>>
not_search == <<chunker_vars, index_vars, encoder_vars, identity_vars,
                embed_vars, ensure_vars, delete_vars, engine_vars, tier_vars>>
not_delete == <<chunker_vars, index_vars, encoder_vars, identity_vars,
                embed_vars, ensure_vars, search_vars, engine_vars, tier_vars>>
not_engine == <<chunker_vars, index_vars, encoder_vars, identity_vars,
                embed_vars, ensure_vars, search_vars, delete_vars, tier_vars>>
not_tier == <<chunker_vars, index_vars, encoder_vars, identity_vars,
              embed_vars, ensure_vars, search_vars, delete_vars, engine_vars>>

\* HybridChunker.__init__'s defaults.
DefaultConfig == [chunk_size |-> 512, chunk_overlap |-> 50,
                  min_chunk_size |-> 100, use_sentence_splitting |-> TRUE]

\* No identity has been asked for.
IdleIdentity ==
    /\ id_metadata = <<>>
    /\ id_content = <<>>
    /\ id_chunk = <<>>
    /\ id_called = {}
    /\ id_doc = <<>>
    /\ id_record = <<>>

\* No embed_batch call is under way.
IdleEmbed ==
    /\ emb_pc = "idle"
    /\ emb_texts = 0
    /\ attempt = 0
    /\ responses = <<>>
    /\ sleeps = <<>>
    /\ emb_result = [vectors |-> 0, error |-> "none"]

\* No caller of ensure_collection exists.
IdleEnsure ==
    /\ collections = <<>>
    /\ enable_hybrid = TRUE
    /\ ens_pc = <<>>
    /\ ens_name = <<>>
    /\ ens_seen = <<>>
    /\ ens_answer = <<>>

\* No query is under way.
IdleSearch ==
    /\ sparse_encoder = TRUE
    /\ target = [named |-> TRUE, sparse |-> TRUE]
    /\ stored_points = {}
    /\ limit = 0
    /\ min_score = <<>>
    /\ search_result = [called |-> FALSE, raised |-> FALSE, hits |-> <<>>]
    /\ hybrid_result = [called |-> FALSE, raised |-> FALSE, hits |-> <<>>]

\* delete_document has not been called.
IdleDelete == deletions = <<>>

\* RAGQueryEngine.search has not been called.
IdleEngine ==
    /\ search_request = [min_score |-> <<>>, limit |-> 5]
    /\ similarity_threshold = 70
    /\ srch_pc = "idle"
    /\ embed_count = 0
    /\ search_response = <<>>

\* TierRunner.run_tier has not been called.
IdleTier ==
    /\ indexing_config = [max_retries |-> 3, request_delay |-> 5]
    /\ tier_source_type = "web"
    /\ url_items = <<>>
    /\ tier_pc = "idle"
    /\ fetch_pos = 0
    /\ fetch_attempt = 0
    /\ http_log = <<>>
    /\ tier_sleeps = <<>>
    /\ fetch_results = <<>>
    /\ indexing_result = <<>>

\* No chunker call is under way.
IdleChunker ==
    /\ text = <<>>
    /\ cfg = DefaultConfig
    /\ api = "chunk_with_positions"
    /\ pc = "idle"
    /\ start = 0
    /\ sentences = <<>>
    /\ pos = 1
    /\ chunks = <<>>
    /\ current_chunk = <<>>
    /\ current_length = 0
    /\ current_start = 0
    /\ overlap_sentences = <<>>
    /\ seed = <<>>
    /\ carried = <<>>
    /\ result = <<>>

\* The engine, unused: an empty store and no call.
IdleIndex ==
    /\ engine_cfg = DefaultConfig
    /\ store = <<>>
    /\ store_before = <<>>
    /\ clock = 0
    /\ ipc = "idle"
    /\ request = <<>>
    /\ collection_name = <<>>
    /\ doc_pos = 1
    /\ all_chunks = <<>>
    /\ indexed_doc_ids = <<>>
    /\ chunks_with_meta = <<>>
    /\ embeddings = <<>>
    /\ calls = <<>>

\* BM25SparseEncoder.__init__: no corpus statistics, avg_doc_length 100.
NotEncoded == [called |-> FALSE, raised |-> FALSE, text |-> <<>>,
               indices |-> <<>>, values |-> <<>>]

NewEncoder ==
    /\ idf = {}
    /\ avg_doc_length = [num |-> 100, den |-> 1]
    /\ doc_count = 0
    /\ fits = 0
    /\ encoded = NotEncoded
    /\ encoded_at = 0
    /\ corpus = <<>>

IdleEncoder == vocab_size = 30000 /\ NewEncoder

Configs == [chunk_size : 1..MaxChunkSize, chunk_overlap : 0..MaxOverlap,
            min_chunk_size : 0..MaxMinChunk, use_sentence_splitting : BOOLEAN]

Last(s) == s[Len(s)]

\* The chunk a method falls back to: the whole text.
WholeText(t) == [content |-> t, start |-> 0, end |-> Len(t)]

\* The sentences kept for overlap when a buffer is closed: walked back to
\* front, stopping at the first sentence that does not fit chunk_overlap.
RECURSIVE overlap_walk(_, _, _, _, _)
overlap_walk(cc, k, acc, acclen, ov) ==
    IF k = 0 THEN [sentences |-> acc, length |-> acclen]
    ELSE IF acclen + Len(cc[k]) <= ov
         THEN overlap_walk(cc, k - 1, <<cc[k]>> \o acc, acclen + Len(cc[k]), ov)
         ELSE [sentences |-> acc, length |-> acclen]

OverlapOf(cc, ov) == overlap_walk(cc, Len(cc), <<>>, 0, ov)

\* One pass of the while loop of _fixed_size_chunk_with_positions from the
\* loop head (st.start < len(text)): the locals after the pass and whether
\* the loop is left.
fixed_size_chunk_with_positions_body(t, c, st) ==
    LET end == Min(st.start + c.chunk_size, Len(t))
        chunk == Strip(Slice(t, st.start, end))
        actual_start == Find(t, chunk, st.start)
        actual_end == actual_start + Len(chunk)
        chunks2 == IF chunk # <<>>
                   THEN Append(st.chunks, [content |-> chunk,
                                           start |-> actual_start,
                                           end |-> actual_end])
                   ELSE st.chunks
        start2 == end - c.chunk_overlap
    IN  [start |-> start2, chunks |-> chunks2,
         exit |-> \/ start2 >= Len(t)
                  \/ (chunks2 # <<>> /\ start2 <= Last(chunks2).start)]

\* One pass of the while loop of _fixed_size_chunk.
fixed_size_chunk_body(t, c, st) ==
    LET end == st.start + c.chunk_size
        chunk == Strip(Slice(t, st.start, end))
        chunks2 == IF chunk # <<>> THEN Append(st.chunks, chunk) ELSE st.chunks
        start2 == end - c.chunk_overlap
    IN  [start |-> start2, chunks |-> chunks2,
         exit |-> \/ start2 <= Len(chunks2) * c.chunk_size
                                  - Len(chunks2) * c.chunk_overlap
                  \/ ~(start2 < Len(t))]

\* The locals of the sentence loops before the first sentence.
HybridStart == [chunks |-> <<>>, current_chunk |-> <<>>, current_length |-> 0,
                current_start |-> 0, overlap_sentences |-> <<>>,
                seed |-> <<>>, carried |-> <<>>]

\* One pass of the for loop of _hybrid_chunk_with_positions over the raw
\* sentence `raw`; st holds the locals (and the history seed, carried).
hybrid_chunk_with_positions_body(t, c, st, raw) ==
    LET sentence == Strip(raw)
        sentence_length == Len(sentence)
        sentence_pos == Find(t, sentence, st.current_start)
        closing == /\ st.current_length + sentence_length > c.chunk_size
                   /\ st.current_chunk # <<>>
        chunk_text == Join(st.current_chunk)
        emit == closing /\ Len(chunk_text) >= c.min_chunk_size
        chunk_start == Find(t, st.current_chunk[1],
                            Max(0, st.current_start - c.chunk_size))
        chunk_end == Find(t, Last(st.current_chunk), chunk_start)
                        + Len(Last(st.current_chunk))
        ov == OverlapOf(st.current_chunk, c.chunk_overlap)
    IN  IF sentence = <<>> THEN st
        ELSE [chunks |-> IF emit
                         THEN Append(st.chunks, [content |-> chunk_text,
                                                 start |-> chunk_start,
                                                 end |-> chunk_end])
                         ELSE st.chunks,
              current_chunk |-> Append(IF closing THEN ov.sentences
                                       ELSE st.current_chunk, sentence),
              current_length |-> (IF closing THEN ov.length
                                  ELSE st.current_length) + sentence_length,
              current_start |-> sentence_pos + sentence_length,
              overlap_sentences |-> IF closing THEN ov.sentences
                                    ELSE st.overlap_sentences,
              seed |-> IF closing
                       THEN (IF emit THEN ov.sentences ELSE <<>>)
                       ELSE st.seed,
              carried |-> IF emit THEN Append(st.carried, st.seed)
                          ELSE st.carried]

\* The code of _hybrid_chunk_with_positions after its for loop: the trailing
\* buffer is emitted if it reaches min_chunk_size.
hybrid_chunk_with_positions_flush(t, c, st) ==
    LET chunk_text == Join(st.current_chunk)
        chunk_start == Find(t, st.current_chunk[1],
                            Max(0, st.current_start - c.chunk_size
                                     - st.current_length))
        chunk_end == Min(Len(t), Find(t, Last(st.current_chunk), chunk_start)
                                    + Len(Last(st.current_chunk)))
    IN  IF st.current_chunk # <<>> /\ Len(chunk_text) >= c.min_chunk_size
        THEN [st EXCEPT !.chunks = Append(@, [content |-> chunk_text,
                                              start |-> chunk_start,
                                              end |-> chunk_end]),
                        !.carried = Append(@, st.seed)]
        ELSE st

\* One pass of the for loop of _hybrid_chunk: as above without positions.
hybrid_chunk_body(c, st, raw) ==
    LET sentence == Strip(raw)
        sentence_length == Len(sentence)
        closing == /\ st.current_length + sentence_length > c.chunk_size
                   /\ st.current_chunk # <<>>
        chunk_text == Join(st.current_chunk)
        emit == closing /\ Len(chunk_text) >= c.min_chunk_size
        ov == OverlapOf(st.current_chunk, c.chunk_overlap)
    IN  IF sentence = <<>> THEN st
        ELSE [st EXCEPT
                !.chunks = IF emit THEN Append(@, chunk_text) ELSE @,
                !.current_chunk = Append(IF closing THEN ov.sentences ELSE @,
                                         sentence),
                !.current_length = (IF closing THEN ov.length ELSE @)
                                      + sentence_length,
                !.overlap_sentences = IF closing THEN ov.sentences ELSE @,
                !.seed = IF closing THEN (IF emit THEN ov.sentences ELSE <<>>)
                         ELSE @,
                !.carried = IF emit THEN Append(@, st.seed) ELSE @]

\* The code of _hybrid_chunk after its for loop.
hybrid_chunk_flush(c, st) ==
    LET chunk_text == Join(st.current_chunk)
    IN  IF st.current_chunk # <<>> /\ Len(chunk_text) >= c.min_chunk_size
        THEN [st EXCEPT !.chunks = Append(@, chunk_text),
                        !.carried = Append(@, st.seed)]
        ELSE st

\* The locals of the running method as one record.
Locals == [chunks |-> chunks, current_chunk |-> current_chunk,
           current_length |-> current_length, current_start |-> current_start,
           overlap_sentences |-> overlap_sentences, seed |-> seed,
           carried |-> carried]

SetLocals(st) ==
    /\ chunks' = st.chunks
    /\ current_chunk' = st.current_chunk
    /\ current_length' = st.current_length
    /\ current_start' = st.current_start
    /\ overlap_sentences' = st.overlap_sentences
    /\ seed' = st.seed
    /\ carried' = st.carried

(***************************************************************************)
(* The chunker as a function: what a call returns.                         *)
(***************************************************************************)
\* The for loop of _hybrid_chunk_with_positions over sentences[k..].
RECURSIVE hybrid_chunk_with_positions_loop(_, _, _, _, _)
hybrid_chunk_with_positions_loop(t, c, st, ss, k) ==
    IF k > Len(ss) THEN st
    ELSE hybrid_chunk_with_positions_loop(
            t, c, hybrid_chunk_with_positions_body(t, c, st, ss[k]), ss, k + 1)

hybrid_chunk_with_positions(t, c) ==
    LET st == hybrid_chunk_with_positions_flush(
                  t, c, hybrid_chunk_with_positions_loop(
                            t, c, HybridStart, SplitSentences(t), 1))
    IN  IF st.chunks # <<>> THEN st.chunks ELSE <<WholeText(t)>>

\* The while loop of _fixed_size_chunk_with_positions, followed for at most
\* `fuel` passes: [returns |-> whether the loop was left, chunks |-> ...].
RECURSIVE fixed_size_chunk_with_positions_loop(_, _, _, _)
fixed_size_chunk_with_positions_loop(t, c, st, fuel) ==
    IF fuel = 0 THEN [returns |-> FALSE, chunks |-> st.chunks]
    ELSE LET nx == fixed_size_chunk_with_positions_body(t, c, st)
         IN  IF nx.exit THEN [returns |-> TRUE, chunks |-> nx.chunks]
             ELSE IF nx.start = st.start /\ nx.chunks = st.chunks
                  THEN [returns |-> FALSE, chunks |-> st.chunks]
                  ELSE fixed_size_chunk_with_positions_loop(
                          t, c, [start |-> nx.start, chunks |-> nx.chunks],
                          fuel - 1)

\* chunk_with_positions(text): [returns, chunks]; returns is FALSE when the
\* fixed-mode loop does not come back within 2 * (len(text) + chunk_size)
\* passes (a loop that leaves at all leaves sooner).
chunk_with_positions(t, c) ==
    IF t = <<>> THEN [returns |-> TRUE, chunks |-> <<>>]
    ELSE IF Len(t) < c.min_chunk_size
         THEN [returns |-> TRUE, chunks |-> <<WholeText(t)>>]
    ELSE IF c.use_sentence_splitting
         THEN [returns |-> TRUE, chunks |-> hybrid_chunk_with_positions(t, c)]
    ELSE fixed_size_chunk_with_positions_loop(
            t, c, [start |-> 0, chunks |-> <<>>],
            2 * (Len(t) + c.chunk_size))

\* A merge in which the keys of the base win.
MergeDictBaseWins(base, over) ==
    [k \in (DOMAIN base) \cup (DOMAIN over) |->
        IF k \in DOMAIN base THEN base[k] ELSE over[k]]

\* {**base, **over}: the keys of both, those of `over` winning.
MergeDict(base, over) ==
    [k \in (DOMAIN base) \cup (DOMAIN over) |->
        IF k \in DOMAIN over THEN over[k] ELSE base[k]]

\* The chunk-specific metadata chunk_with_metadata sets for the chunk at
\* position idx (0-based) of total_chunks.
ChunkFields(c, chunk, idx, total_chunks) ==
    [chunk_index |-> idx,
     chunk_char_start |-> chunk.start,
     chunk_char_end |-> chunk.end,
     chunk_size |-> Len(chunk.content),
     chunk_overlap |-> c.chunk_overlap,
     chunk_strategy |-> IF c.use_sentence_splitting THEN "sentence+char"
                        ELSE "fixed",
     total_chunks |-> total_chunks]

\* The metadata of one chunk: the base metadata with the chunk fields over it.
ChunkMetadata(c, base_metadata, chunk, idx, total_chunks) ==
    MergeDict(base_metadata, ChunkFields(c, chunk, idx, total_chunks))

\* chunk_with_metadata(text, base_metadata), given the chunks with positions.
chunk_with_metadata(c, chunks_with_pos, base_metadata) ==
    [k \in 1..Len(chunks_with_pos) |->
        [content |-> chunks_with_pos[k].content,
         metadata |-> ChunkMetadata(c, base_metadata, chunks_with_pos[k],
                                    k - 1, Len(chunks_with_pos))]]

(***************************************************************************)
(* Document and chunk identity (query_engine.py).  Strings are sequences   *)
(* of characters; None and the empty string, which the code's truth tests  *)
(* do not tell apart, are both <<>>.                                       *)
(***************************************************************************)
UpperCase == <<"A", "B", "C", "D", "E", "F", "G", "H", "I", "J", "K", "L", "M",
               "N", "O", "P", "Q", "R", "S", "T", "U", "V", "W", "X", "Y", "Z">>
LowerCase == <<"a", "b", "c", "d", "e", "f", "g", "h", "i", "j", "k", "l", "m",
               "n", "o", "p", "q", "r", "s", "t", "u", "v", "w", "x", "y", "z">>

LowerChar(ch) ==
    IF \E i \in 1..Len(UpperCase) : UpperCase[i] = ch
    THEN LowerCase[CHOOSE i \in 1..Len(UpperCase) : UpperCase[i] = ch]
    ELSE ch

\* s.lower()
Lower(str) == [i \in 1..Len(str) |-> LowerChar(str[i])]

\* s.replace(old, new) for a non-empty old: left to right, not overlapping.
RECURSIVE ReplaceAll(_, _, _)
ReplaceAll(str, old, new) ==
    IF Len(str) < Len(old) THEN str
    ELSE IF SubSeq(str, 1, Len(old)) = old
         THEN new \o ReplaceAll(SubSeq(str, Len(old) + 1, Len(str)), old, new)
         ELSE <<str[1]>> \o ReplaceAll(Tail(str), old, new)

\* s.rstrip(ch)
RECURSIVE RStripChar(_, _)
RStripChar(str, ch) ==
    IF str # <<>> /\ str[Len(str)] = ch
    THEN RStripChar(SubSeq(str, 1, Len(str) - 1), ch)
    ELSE str

\* s.split(ch): the pieces between the occurrences of ch, empty ones included.
RECURSIVE SplitOnFrom(_, _, _, _)
SplitOnFrom(str, ch, k, cur) ==
    IF k > Len(str) THEN <<cur>>
    ELSE IF str[k] = ch
         THEN <<cur>> \o SplitOnFrom(str, ch, k + 1, <<>>)
         ELSE SplitOnFrom(str, ch, k + 1, Append(cur, str[k]))

SplitOn(str, ch) == SplitOnFrom(str, ch, 1, <<>>)

\* seq[-n:]
LastN(seq, n) == SubSeq(seq, Max(1, Len(seq) - n + 1), Len(seq))

\* sep.join(parts)
RECURSIVE JoinWith(_, _)
JoinWith(parts, sep) ==
    IF Len(parts) = 0 THEN <<>>
    ELSE IF Len(parts) = 1 THEN parts[1]
    ELSE parts[1] \o sep \o JoinWith(Tail(parts), sep)

\* str(n) for n >= 0
Digits == <<"0", "1", "2", "3", "4", "5", "6", "7", "8", "9">>

RECURSIVE IntToStr(_)
IntToStr(n) ==
    IF n < 10 THEN <<Digits[n + 1]>>
    ELSE IntToStr(n \div 10) \o <<Digits[(n % 10) + 1]>>

\* content[:500] is the part of the content the hash fallback reads.
HashPrefixLen == 500

\* hashlib.sha256(x).hexdigest()[:12], idealised as free of collisions: the
\* digest of x is x behind the marker "#".
Sha256Hex12(x) == <<"#">> \o x

\* uuid.uuid5(NAMESPACE_DNS, name) as a string, idealised in the same way.
Uuid5(name) == <<"uuid5">> \o name

NotTrivialPart(part) ==
    /\ part # <<>>
    /\ part # <<"i", "n", "d", "e", "x", ".", "h", "t", "m", "l">>
    /\ part # <<"w", "w", "w">>

\* A generate_doc_id that tries the URL before the structured fields.
generate_doc_id_url_first(metadata, content) ==
    LET parts ==
            (IF metadata.library # <<>>
             THEN <<ReplaceAll(Lower(metadata.library), <<" ">>, <<"_">>)>>
             ELSE <<>>)
            \o (IF metadata.module # <<>>
                THEN <<ReplaceAll(Lower(metadata.module), <<" ">>, <<"_">>)>>
                ELSE <<>>)
            \o (IF metadata.symbol # <<>> THEN <<metadata.symbol>> ELSE <<>>)
        url_parts == SplitOn(RStripChar(metadata.url, "/"), "/")
        meaningful == SelectSeq(LastN(url_parts, 3), NotTrivialPart)
        hash_input == metadata.url \o SubSeq(content, 1,
                                             Min(Len(content), HashPrefixLen))
    IN  IF metadata.url # <<>> /\ meaningful # <<>>
        THEN ReplaceAll(
                 ReplaceAll(JoinWith(meaningful, <<":">>),
                            <<".", "h", "t", "m", "l">>, <<>>),
                 <<".", "m", "d">>, <<>>)
        ELSE IF parts # <<>> THEN JoinWith(parts, <<":">>)
        ELSE <<"d", "o", "c", ":">> \o Sha256Hex12(hash_input)

\* generate_doc_id(metadata, content)
generate_doc_id(metadata, content) ==
    LET parts ==
            (IF metadata.library # <<>>
             THEN <<ReplaceAll(Lower(metadata.library), <<" ">>, <<"_">>)>>
             ELSE <<>>)
            \o (IF metadata.module # <<>>
                THEN <<ReplaceAll(Lower(metadata.module), <<" ">>, <<"_">>)>>
                ELSE <<>>)
            \o (IF metadata.symbol # <<>> THEN <<metadata.symbol>> ELSE <<>>)
        url_parts == SplitOn(RStripChar(metadata.url, "/"), "/")
        meaningful == SelectSeq(LastN(url_parts, 3), NotTrivialPart)
        hash_input == metadata.url \o SubSeq(content, 1,
                                             Min(Len(content), HashPrefixLen))
    IN  IF parts # <<>> THEN JoinWith(parts, <<":">>)
        ELSE IF metadata.url # <<>> /\ meaningful # <<>>
             THEN ReplaceAll(
                      ReplaceAll(JoinWith(meaningful, <<":">>),
                                 <<".", "h", "t", "m", "l">>, <<>>),
                      <<".", "m", "d">>, <<>>)
        ELSE <<"d", "o", "c", ":">> \o Sha256Hex12(hash_input)

\* A chunk id whose input has no separator between the id and the index.
chunk_uuid_unseparated(chunk) ==
    Uuid5(chunk.metadata.source_doc_id
              \o IntToStr(chunk.metadata.chunk_index))

\* A chunk id that also reads the time of ingestion.
chunk_uuid_timestamped(chunk) ==
    Uuid5(chunk.metadata.source_doc_id
              \o <<":", "c", "h", "u", "n", "k", ":">>
              \o IntToStr(chunk.metadata.chunk_index)
              \o <<"@">> \o IntToStr(chunk.metadata.ingested_at[1]))

\* The id index gives the record of a chunk: uuid5 of
\* f"{source_id}:chunk:{chunk_idx}".
chunk_uuid(chunk) ==
    LET source_id == chunk.metadata.source_doc_id
        chunk_idx == chunk.metadata.chunk_index
        chunk_id_input == source_id \o <<":", "c", "h", "u", "n", "k", ":">>
                              \o IntToStr(chunk_idx)
    IN  Uuid5(chunk_id_input)

(***************************************************************************)
(* The call as a state machine.                                            *)
(***************************************************************************)
InitChunker ==
    /\ text \in TextsUpTo(MaxLen)
    /\ cfg \in Configs
    /\ api \in {"chunk", "chunk_with_positions"}
    /\ pc = "call"
    /\ start = 0
    /\ sentences = <<>>
    /\ pos = 1
    /\ chunks = <<>>
    /\ current_chunk = <<>>
    /\ current_length = 0
    /\ current_start = 0
    /\ overlap_sentences = <<>>
    /\ seed = <<>>
    /\ carried = <<>>
    /\ result = <<>>

\* ReturnShort with the short text trimmed like the chunks of the loops.
ReturnShortTrimmed ==
    /\ pc = "call"
    /\ UNCHANGED not_chunker
    /\ text = <<>> \/ Len(text) < cfg.min_chunk_size
    /\ result' = IF text = <<>> THEN <<>>
                 ELSE IF api = "chunk" THEN <<Strip(text)>>
                 ELSE <<[content |-> Strip(text), start |-> 0,
                         end |-> Len(text)]>>
    /\ pc' = "done"
    /\ UNCHANGED <<text, cfg, api, start, chunks, sentences, pos, current_chunk,
                   current_length, current_start, overlap_sentences, seed,
                   carried>>

\* chunk / chunk_with_positions up to the dispatch: empty and short texts
\* return at once.
ReturnShort ==
    /\ pc = "call"
    /\ UNCHANGED not_chunker
    /\ text = <<>> \/ Len(text) < cfg.min_chunk_size
    /\ result' = IF text = <<>> THEN <<>>
                 ELSE IF api = "chunk" THEN <<text>> ELSE <<WholeText(text)>>
    /\ pc' = "done"
    /\ UNCHANGED <<text, cfg, api, start, chunks, sentences, pos, current_chunk,
                   current_length, current_start, overlap_sentences, seed,
                   carried>>

EnterHybrid ==
    /\ pc = "call"
    /\ UNCHANGED not_chunker
    /\ ~(text = <<>> \/ Len(text) < cfg.min_chunk_size)
    /\ cfg.use_sentence_splitting
    /\ sentences' = SplitSentences(text)
    /\ pos' = 1
    /\ pc' = "hybrid"
    /\ UNCHANGED <<text, cfg, api, start, chunks, current_chunk, current_length,
                   current_start, overlap_sentences, seed, carried, result>>

EnterFixed ==
    /\ pc = "call"
    /\ UNCHANGED not_chunker
    /\ ~(text = <<>> \/ Len(text) < cfg.min_chunk_size)
    /\ ~cfg.use_sentence_splitting
    /\ start' = 0
    /\ pc' = "fixed"
    /\ UNCHANGED <<text, cfg, api, chunks, sentences, pos, current_chunk,
                   current_length, current_start, overlap_sentences, seed,
                   carried, result>>

\* One iteration of the while loop of _fixed_size_chunk_with_positions.  Once
\* start + chunk_size <= -len(text) every later window is text[0:0] and start
\* only decreases: the loop runs on for ever, and the model stops following it.
FixedPosStep ==
    /\ pc = "fixed"
    /\ UNCHANGED not_chunker
    /\ api = "chunk_with_positions"
    /\ start + cfg.chunk_size + Len(text) > 0
    /\ LET st == fixed_size_chunk_with_positions_body(
                    text, cfg, [start |-> start, chunks |-> chunks])
       IN  /\ start' = st.start
           /\ chunks' = st.chunks
           /\ pc' = IF st.exit THEN "done" ELSE "fixed"
           /\ result' = IF st.exit THEN st.chunks ELSE result
    /\ UNCHANGED <<text, cfg, api, sentences, pos, current_chunk,
                   current_length, current_start, overlap_sentences, seed,
                   carried>>

\* One iteration of the while loop of _fixed_size_chunk.
FixedStep ==
    /\ pc = "fixed"
    /\ UNCHANGED not_chunker
    /\ api = "chunk"
    /\ LET st == fixed_size_chunk_body(
                    text, cfg, [start |-> start, chunks |-> chunks])
       IN  /\ start' = st.start
           /\ chunks' = st.chunks
           /\ pc' = IF st.exit THEN "done" ELSE "fixed"
           /\ result' = IF st.exit THEN st.chunks ELSE result
    /\ UNCHANGED <<text, cfg, api, sentences, pos, current_chunk,
                   current_length, current_start, overlap_sentences, seed,
                   carried>>

\* One iteration of the for loop of _hybrid_chunk_with_positions.
HybridPosStep ==
    /\ pc = "hybrid"
    /\ UNCHANGED not_chunker
    /\ api = "chunk_with_positions"
    /\ pos <= Len(sentences)
    /\ SetLocals(hybrid_chunk_with_positions_body(text, cfg, Locals,
                                                  sentences[pos]))
    /\ pos' = pos + 1
    /\ UNCHANGED <<text, cfg, api, pc, start, sentences, result>>

\* _hybrid_chunk_with_positions after the loop, and its return.
HybridPosFlush ==
    /\ pc = "hybrid"
    /\ UNCHANGED not_chunker
    /\ api = "chunk_with_positions"
    /\ pos > Len(sentences)
    /\ LET st == hybrid_chunk_with_positions_flush(text, cfg, Locals)
       IN  /\ SetLocals(st)
           /\ result' = IF st.chunks # <<>> THEN st.chunks
                        ELSE <<WholeText(text)>>
    /\ pc' = "done"
    /\ UNCHANGED <<text, cfg, api, start, sentences, pos>>

\* One iteration of the for loop of _hybrid_chunk.
HybridStep ==
    /\ pc = "hybrid"
    /\ UNCHANGED not_chunker
    /\ api = "chunk"
    /\ pos <= Len(sentences)
    /\ SetLocals(hybrid_chunk_body(cfg, Locals, sentences[pos]))
    /\ pos' = pos + 1
    /\ UNCHANGED <<text, cfg, api, pc, start, sentences, result>>

\* _hybrid_chunk after the loop, and its return.
HybridFlush ==
    /\ pc = "hybrid"
    /\ UNCHANGED not_chunker
    /\ api = "chunk"
    /\ pos > Len(sentences)
    /\ LET st == hybrid_chunk_flush(cfg, Locals)
       IN  /\ SetLocals(st)
           /\ result' = IF st.chunks # <<>> THEN st.chunks ELSE <<text>>
    /\ pc' = "done"
    /\ UNCHANGED <<text, cfg, api, start, sentences, pos>>

NextChunker ==
    \/ ReturnShort
    \/ EnterHybrid
    \/ EnterFixed
    \/ FixedPosStep
    \/ FixedStep
    \/ HybridPosStep
    \/ HybridPosFlush
    \/ HybridStep
    \/ HybridFlush

ChunkerInit == InitChunker /\ IdleIndex /\ IdleEncoder /\ IdleIdentity /\ IdleEmbed /\ IdleEnsure /\ IdleSearch /\ IdleDelete /\ IdleEngine /\ IdleTier

ChunkerSpec == ChunkerInit /\ [][NextChunker]_vars

(***************************************************************************)
(* Properties of the chunker.                                              *)
(***************************************************************************)
\* chunk_with_positions has returned.
Returned == pc = "done" /\ api = "chunk_with_positions"

\* The returned chunks are the ones the sentence loop emitted (not the
\* whole-text chunk of a short text or of the fallback).
ReturnedFromSentenceLoop ==
    /\ Returned
    /\ cfg.use_sentence_splitting
    /\ chunks # <<>>
    /\ result = chunks

InRange(t, ch) == 0 <= ch.start /\ ch.start <= ch.end /\ ch.end <= Len(t)

\* C2: every chunk returned by chunk_with_positions, in fixed mode and in
\* sentence mode, has 0 <= start <= end <= len(text).
C2_OffsetsInRange ==
    Returned => \A k \in 1..Len(result) : InRange(text, result[k])

\* C3: for every chunk the sentence loop emits, text[start:end] trimmed of
\* whitespace is the chunk's content or contains it, also when a sentence
\* occurs more than once in the text.
C3_SpanContainsContent ==
    ReturnedFromSentenceLoop =>
        \A k \in 1..Len(result) :
            Contains(Strip(Slice(text, result[k].start, result[k].end)),
                     result[k].content)

\* C4: the start offsets of the returned chunks are non-decreasing in
\* emission order (stated for the results whose offsets are all in range).
C4_StartsNonDecreasing ==
    (Returned /\ \A k \in 1..Len(result) : InRange(text, result[k])) =>
        \A k \in 1..(Len(result) - 1) : result[k].start <= result[k + 1].start

\* The number of characters two spans have in common.
SpanIntersection(a, b) == Max(0, Min(a.end, b.end) - Max(a.start, b.start))

\* C5: adjacent chunks share at most chunk_overlap characters: in sentence
\* mode the sentences carried from an emitted chunk into the next emitted
\* chunk, joined by single spaces as they stand in both contents, are at
\* most chunk_overlap long; in fixed mode the spans of adjacent chunks
\* intersect in at most chunk_overlap characters.
C5_OverlapBound ==
    Returned =>
        /\ cfg.use_sentence_splitting =>
              \A k \in 1..Len(carried) :
                  Len(Join(carried[k])) <= cfg.chunk_overlap
        /\ ~cfg.use_sentence_splitting =>
              \A k \in 1..(Len(result) - 1) :
                  SpanIntersection(result[k], result[k + 1])
                      <= cfg.chunk_overlap

\* At the head of the while loop of _fixed_size_chunk_with_positions, the
\* next pass neither leaves the loop nor changes a local: the loop, which is
\* deterministic, repeats that pass for ever.
FixedPosSpins ==
    /\ pc = "fixed"
    /\ api = "chunk_with_positions"
    /\ LET st == fixed_size_chunk_with_positions_body(
                    text, cfg, [start |-> start, chunks |-> chunks])
       IN  ~st.exit /\ st.start = start /\ st.chunks = chunks

\* At the head of that loop, start has fallen so far below zero that every
\* later window is empty and every later start is lower still.
FixedPosRunsAway ==
    /\ pc = "fixed"
    /\ api = "chunk_with_positions"
    /\ start + cfg.chunk_size + Len(text) <= 0
    /\ cfg.chunk_overlap >= cfg.chunk_size

\* The same for the while loop of _fixed_size_chunk.
FixedSpins ==
    /\ pc = "fixed"
    /\ api = "chunk"
    /\ LET st == fixed_size_chunk_body(
                    text, cfg, [start |-> start, chunks |-> chunks])
       IN  ~st.exit /\ st.start = start /\ st.chunks = chunks

\* C6: the sliding-window loops of fixed mode reach their exit for every text
\* and configuration: no call comes to a loop head from which the loop can
\* never leave.
C6_FixedModeTerminates == ~FixedPosSpins /\ ~FixedPosRunsAway /\ ~FixedSpins

NonEmpty(s) == s # <<>>

\* The non-empty trimmed sentences of a text, in source order.
SentencesOf(t) ==
    LET raw == SplitSentences(t)
    IN  SelectSeq([i \in 1..Len(raw) |-> Strip(raw[i])], NonEmpty)

\* C7: in sentence mode, for a text of at least min_chunk_size characters,
\* every non-empty sentence of the text appears in the content of an emitted
\* chunk, in source order.
C7_NoSentenceLost ==
    (Returned /\ cfg.use_sentence_splitting
              /\ Len(text) >= cfg.min_chunk_size) =>
        LET sents == SentencesOf(text)
        IN  \E f \in [1..Len(sents) -> 1..Len(result)] :
                /\ \A i \in 1..Len(sents) :
                       Contains(result[f[i]].content, sents[i])
                /\ \A i \in 1..(Len(sents) - 1) : f[i] <= f[i + 1]

\* C8: chunk_with_positions returns no chunk for the empty text and, for a
\* non-empty text shorter than min_chunk_size, exactly one chunk with the
\* text as content, start 0 and end len(text), in both modes and for every
\* chunk_size and chunk_overlap.
C8_ShortTextOneChunk ==
    Returned =>
        /\ text = <<>> => result = <<>>
        /\ (text # <<>> /\ Len(text) < cfg.min_chunk_size) =>
               result = <<[content |-> text, start |-> 0, end |-> Len(text)]>>

\* A short text with blanks around it was returned in fixed mode with an
\* overlap that is not below the chunk size.
C8_Witness ==
    /\ Returned
    /\ text = <<" ", "a">>
    /\ cfg.min_chunk_size = 3
    /\ ~cfg.use_sentence_splitting
    /\ cfg.chunk_overlap >= cfg.chunk_size
    /\ result = <<[content |-> text, start |-> 0, end |-> 2]>>


\* C26: in fixed mode with chunk_overlap < chunk_size the chunks returned
\* by chunk_with_positions cover the text: every character of the text that
\* is not whitespace lies in the span [start, end) of a chunk.
C26_FixedCoversText ==
    (/\ Returned
     /\ api = "chunk_with_positions"
     /\ ~cfg.use_sentence_splitting
     /\ cfg.chunk_overlap < cfg.chunk_size) =>
        \A i \in 1..Len(text) :
            ~IsSpace(text[i]) =>
                \E k \in 1..Len(result) :
                    result[k].start <= i - 1 /\ i - 1 < result[k].end


\* C27: what chunk(text) returned is the sequence of the contents of the
\* chunks chunk_with_positions(text) returns under the same configuration:
\* as many, in the same order, in sentence mode and in fixed mode.
C27_ChunkMatchesPositions ==
    (pc = "done" /\ api = "chunk") =>
        LET with_pos == chunk_with_positions(text, cfg)
        IN  with_pos.returns =>
                result = [k \in 1..Len(with_pos.chunks) |->
                             with_pos.chunks[k].content]


(***************************************************************************)
(* QueryEngine.index (query_engine.py) over the chunker, the embedding     *)
(* client and the vector store.  A call runs in four steps: IndexCall      *)
(* (collection name, ensure_collection), IndexDoc once per document,       *)
(* the embedding client's answer, and Insert.  Calls are serial.           *)
(***************************************************************************)
MaxCalls == 2

\* An absent Optional[int] of DocumentMetadata.
NoneInt == 0 - 1

Str_Foo == <<"F", "o", "o">>
Str_Url == <<"h", "/", "G", "u", "i", "d", "e", ".", "m", "d">>
Str_Other == <<"o", "t", "h", "e", "r">>
Str_Documents == <<"d", "o", "c", "u", "m", "e", "n", "t", "s">>

\* DocumentMetadata(): the fields index and generate_doc_id read or write.
NoMetadata == [library |-> <<>>, module |-> <<>>, symbol |-> <<>>, url |-> <<>>,
               ingested_at |-> <<>>, source_doc_id |-> <<>>,
               chunk_index |-> NoneInt, total_chunks |-> NoneInt]

Text_Three == <<"a", ".", " ", "a", ".", " ", "a">>
Text_Two == <<"a", ".", " ", "a">>

\* The documents callers send: one named by its library, one with nothing to
\* name it, one named by its URL, one with an id and with the chunk fields
\* and source_doc_id already set by the caller, and one with the first's
\* library and another content.
Doc_Library == [id |-> <<>>, content |-> Text_Three,
                metadata |-> [NoMetadata EXCEPT !.library = Str_Foo]]
Doc_Bare == [id |-> <<>>, content |-> Text_Two, metadata |-> NoMetadata]
Doc_Url == [id |-> <<>>, content |-> Text_Three,
            metadata |-> [NoMetadata EXCEPT !.url = Str_Url]]
Doc_WithId == [id |-> <<"X">>, content |-> Text_Two,
               metadata |-> [NoMetadata EXCEPT !.source_doc_id = <<"z">>,
                                               !.chunk_index = 7,
                                               !.total_chunks = 9,
                                               !.ingested_at = <<0>>]]
Doc_Library2 == [id |-> <<>>, content |-> Text_Two,
                 metadata |-> [NoMetadata EXCEPT !.library = Str_Foo]]

\* A document of one blank.
Doc_Blank == [id |-> <<>>, content |-> <<" ">>,
              metadata |-> [NoMetadata EXCEPT !.url = Str_Url]]

Str_UrlApi == <<"h", "/", "A", "p", "i", ".", "m", "d">>

\* Two pages of one library as TierRunner._process_results sends them: the
\* library and the page's URL, no module and no symbol.
Doc_FooGuide == [id |-> <<>>, content |-> Text_Three,
                 metadata |-> [NoMetadata EXCEPT !.library = Str_Foo,
                                                 !.url = Str_Url]]
Doc_FooApi == [id |-> <<>>, content |-> Text_Two,
               metadata |-> [NoMetadata EXCEPT !.library = Str_Foo,
                                               !.url = Str_UrlApi]]

\* A document whose caller chose a UUID as its id.
Doc_UuidId == [id |-> Uuid5(<<"k">>), content |-> Text_Two,
               metadata |-> NoMetadata]

\* IndexRequest: documents and an optional collection.
Requests ==
    {[documents |-> <<Doc_Library>>, collection |-> <<>>],
     [documents |-> <<Doc_Bare>>, collection |-> <<>>],
     [documents |-> <<Doc_Url>>, collection |-> Str_Other],
     [documents |-> <<Doc_WithId>>, collection |-> <<>>],
     [documents |-> <<Doc_Library2>>, collection |-> <<>>],
     [documents |-> <<Doc_Bare, Doc_Library>>, collection |-> <<>>],
     [documents |-> <<Doc_WithId, Doc_Url>>, collection |-> <<>>],
     [documents |-> <<Doc_Blank, Doc_Library>>, collection |-> <<>>],
     [documents |-> <<Doc_FooGuide, Doc_FooApi>>, collection |-> <<>>],
     [documents |-> <<Doc_UuidId>>, collection |-> <<>>]}

\* The chunker configurations of the engine.
EngineConfigs ==
    {[chunk_size |-> 2, chunk_overlap |-> 0, min_chunk_size |-> 0,
      use_sentence_splitting |-> TRUE],
     [chunk_size |-> 3, chunk_overlap |-> 0, min_chunk_size |-> 0,
      use_sentence_splitting |-> FALSE],
     [chunk_size |-> 3, chunk_overlap |-> 1, min_chunk_size |-> 0,
      use_sentence_splitting |-> FALSE]}

\* The vector the provider gives for a text.
Vector(t) == <<"vec", t>>

\* client.upsert(points): a point replaces the stored point of its id.
RECURSIVE Upsert(_, _)
Upsert(stored, points) ==
    IF points = <<>> THEN stored
    ELSE Upsert({p \in stored : p.id # points[1].id} \cup {points[1]},
                Tail(points))

\* vector_db.create_collection when collection_exists says no.
ensure_collection(st, name) ==
    IF name \in DOMAIN st THEN st
    ELSE [n \in (DOMAIN st) \cup {name} |-> IF n = name THEN {} ELSE st[n]]

\* index's documents_to_insert: zip(all_chunks, embeddings).
documents_to_insert(chs, embs) ==
    [j \in 1..Min(Len(chs), Len(embs)) |->
        [id |-> chunk_uuid(chs[j]),
         content |-> chs[j].content,
         embedding |-> embs[j],
         metadata |-> chs[j].metadata]]

IdsOf(points) == {p.id : p \in points}

InitIndex ==
    /\ engine_cfg \in EngineConfigs
    /\ store = <<>>
    /\ store_before = <<>>
    /\ clock = 0
    /\ ipc = "idle"
    /\ request = <<>>
    /\ collection_name = <<>>
    /\ doc_pos = 1
    /\ all_chunks = <<>>
    /\ indexed_doc_ids = <<>>
    /\ chunks_with_meta = <<>>
    /\ embeddings = <<>>
    /\ calls = <<>>

\* index() up to the loop over the documents.
IndexCall(req) ==
    /\ ipc = "idle"
    /\ Len(calls) < MaxCalls
    /\ UNCHANGED not_index
    /\ request' = req
    /\ collection_name' = IF req.collection # <<>> THEN req.collection
                          ELSE Str_Documents
    /\ store_before' = store
    /\ store' = ensure_collection(store, collection_name')
    /\ clock' = clock + 1
    /\ all_chunks' = <<>>
    /\ indexed_doc_ids' = <<>>
    /\ chunks_with_meta' = <<>>
    /\ embeddings' = <<>>
    /\ doc_pos' = 1
    /\ ipc' = IF req.documents = <<>> THEN "embed" ELSE "docs"
    /\ UNCHANGED <<engine_cfg, calls>>

\* One pass of the loop over request.documents.
IndexDoc ==
    /\ ipc = "docs"
    /\ UNCHANGED not_index
    /\ LET doc == request.documents[doc_pos]
           doc_id == IF doc.id # <<>> THEN doc.id
                     ELSE generate_doc_id(doc.metadata, doc.content)
           metadata_dict ==
               [doc.metadata EXCEPT
                   !.ingested_at = IF @ = <<>> THEN <<clock>> ELSE @,
                   !.source_doc_id = doc_id]
           with_pos == chunk_with_positions(doc.content, engine_cfg)
       IN  /\ indexed_doc_ids' = Append(indexed_doc_ids, doc_id)
           /\ IF with_pos.returns
              THEN /\ chunks_with_meta' =
                          chunk_with_metadata(engine_cfg, with_pos.chunks,
                                              metadata_dict)
                   /\ all_chunks' = all_chunks \o chunks_with_meta'
                   /\ doc_pos' = doc_pos + 1
                   /\ ipc' = IF doc_pos = Len(request.documents) THEN "embed"
                             ELSE "docs"
              ELSE /\ ipc' = "chunking"
                   /\ UNCHANGED <<chunks_with_meta, all_chunks, doc_pos>>
    /\ UNCHANGED <<engine_cfg, store, store_before, clock, request, collection_name,
                   embeddings, calls>>

\* embed_batch(chunk_texts) returns the list the provider answered with: a
\* vector for each of the first k texts.  For no text it returns [] without
\* asking.
EmbedReturns(k) ==
    /\ ipc = "embed"
    /\ k <= Len(all_chunks)
    /\ UNCHANGED not_index
    /\ embeddings' = [j \in 1..k |-> Vector(all_chunks[j].content)]
    /\ ipc' = "insert"
    /\ UNCHANGED <<engine_cfg, store, store_before, clock, request, collection_name, doc_pos,
                   all_chunks, indexed_doc_ids, chunks_with_meta, calls>>

\* An index that writes the chunks, without vectors, before it embeds them.
EmbedRaisesAfterUpsert ==
    /\ ipc = "embed"
    /\ all_chunks # <<>>
    /\ UNCHANGED not_index
    /\ store' = [store EXCEPT
                    ![collection_name] =
                        Upsert(@, [j \in 1..Len(all_chunks) |->
                                      [id |-> chunk_uuid(all_chunks[j]),
                                       vector |-> <<>>,
                                       payload |->
                                           [content |-> all_chunks[j].content,
                                            metadata |->
                                                all_chunks[j].metadata]]])]
    /\ calls' = Append(calls,
                       [request |-> request, raised |-> TRUE,
                        document_ids |-> indexed_doc_ids,
                        chunk_ids |-> <<>>,
                        chunks |-> Len(all_chunks), vectors |-> 0,
                        indexed_count |-> 0,
                        collection |-> collection_name,
                        stored_ids |-> IdsOf(store'[collection_name])])
    /\ ipc' = "idle"
    /\ UNCHANGED <<engine_cfg, store_before, clock, request, collection_name,
                   doc_pos, all_chunks, indexed_doc_ids, chunks_with_meta,
                   embeddings>>

\* embed_batch raises after its last attempt, and index with it.
EmbedRaises ==
    /\ ipc = "embed"
    /\ all_chunks # <<>>
    /\ UNCHANGED not_index
    /\ calls' = Append(calls,
                       [request |-> request, raised |-> TRUE,
                        document_ids |-> indexed_doc_ids,
                        chunk_ids |-> <<>>,
                        chunks |-> Len(all_chunks), vectors |-> 0,
                        indexed_count |-> 0,
                        collection |-> collection_name,
                        stored_ids |-> IdsOf(store[collection_name])])
    /\ ipc' = "idle"
    /\ UNCHANGED <<engine_cfg, store, store_before, clock, request, collection_name, doc_pos,
                   all_chunks, indexed_doc_ids, chunks_with_meta, embeddings>>

\* The rest of index(): the records, vector_db.insert and the response.
Insert ==
    /\ ipc = "insert"
    /\ UNCHANGED not_index
    /\ LET docs == documents_to_insert(all_chunks, embeddings)
           inserted_ids == [j \in 1..Len(docs) |-> docs[j].id]
           points == [j \in 1..Len(docs) |->
                         [id |-> docs[j].id,
                          vector |-> docs[j].embedding,
                          payload |-> [content |-> docs[j].content,
                                       metadata |-> docs[j].metadata]]]
       IN  /\ store' = [store EXCEPT
                           ![collection_name] = Upsert(@, points)]
           /\ calls' = Append(calls,
                              [request |-> request, raised |-> FALSE,
                               document_ids |-> indexed_doc_ids,
                               chunk_ids |-> inserted_ids,
                               chunks |-> Len(all_chunks),
                               vectors |-> Len(embeddings),
                               indexed_count |-> Len(inserted_ids),
                               collection |-> collection_name,
                               stored_ids |->
                                   IdsOf(store'[collection_name])])
    /\ ipc' = "idle"
    /\ UNCHANGED <<engine_cfg, store_before, clock, request, collection_name,
                   doc_pos, all_chunks, indexed_doc_ids, chunks_with_meta,
                   embeddings>>

MaxDeletes == 1

Range(seq) == {seq[k] : k \in 1..Len(seq)}

\* What the server accepts as the id of a point: a UUID (or an unsigned
\* integer, which no id here is).
IsPointId(id) == id # <<>> /\ id[1] = "uuid5"

\* The records of a collection that belong to the document with that id.
RecordsOfDocument(stored, document_id) ==
    {p \in stored : p.payload.metadata.source_doc_id = document_id}

\* delete_document(collection_name, document_id) for an id the last index
\* call returned: vector_db.delete passes [document_id] to client.delete as
\* the ids of the points to delete.  The server removes the points with
\* these ids and delete returns True; an id the server does not accept
\* raises, which delete answers with False.
DeleteDocument(document_id) ==
    /\ ipc = "idle"
    /\ Len(deletions) < MaxDeletes
    /\ calls # <<>>
    /\ ~Last(calls).raised
    /\ document_id \in Range(Last(calls).document_ids)
    /\ LET col == Last(calls).collection
           accepted == IsPointId(document_id)
       IN  /\ store' = IF accepted
                       THEN [store EXCEPT
                                ![col] = {p \in @ : p.id # document_id}]
                       ELSE store
           /\ deletions' =
                  Append(deletions,
                         [collection |-> col,
                          document_id |-> document_id,
                          returned |-> accepted,
                          remaining |->
                              Cardinality(RecordsOfDocument(store'[col],
                                                            document_id))])
    /\ UNCHANGED <<engine_cfg, store_before, clock, ipc, request,
                   collection_name, doc_pos, all_chunks, indexed_doc_ids,
                   chunks_with_meta, embeddings, calls>>
    /\ UNCHANGED <<chunker_vars, encoder_vars, identity_vars, embed_vars,
                   ensure_vars, search_vars, engine_vars, tier_vars>>

\* The ids index gives the documents of the requests.
DocumentIds ==
    UNION {{IF r.documents[d].id # <<>> THEN r.documents[d].id
            ELSE generate_doc_id(r.documents[d].metadata,
                                 r.documents[d].content)
            : d \in 1..Len(r.documents)} : r \in Requests}

NextIndex ==
    \/ \E req \in Requests : IndexCall(req)
    \/ IndexDoc
    \/ \E k \in 0..(2 * MaxLen) : EmbedReturns(k)
    \/ EmbedRaises
    \/ Insert
    \/ \E document_id \in DocumentIds : DeleteDocument(document_id)

IndexInit == InitIndex /\ IdleChunker /\ IdleEncoder /\ IdleIdentity /\ IdleEmbed /\ IdleEnsure /\ IdleSearch /\ IdleDelete /\ IdleEngine /\ IdleTier

IndexSpec == IndexInit /\ [][NextIndex]_vars


\* Calls i and i + 1 indexed the same documents, none with an explicit id,
\* and in both the provider answered with one vector per chunk.
IndexedTwice(i) ==
    /\ i + 1 <= Len(calls)
    /\ calls[i].request = calls[i + 1].request
    /\ \A d \in 1..Len(calls[i].request.documents) :
           calls[i].request.documents[d].id = <<>>
    /\ \A j \in {i, i + 1} :
           ~calls[j].raised /\ calls[j].vectors = calls[j].chunks

\* C1: indexing the same documents twice (identical content and metadata, no
\* explicit id) gives the same source_doc_id and the same set of chunk ids
\* both times, and the store holds the same set of record ids after the
\* second call as after the first.
C1_ReindexIdempotent ==
    \A i \in 1..Len(calls) :
        IndexedTwice(i) =>
            /\ calls[i].document_ids = calls[i + 1].document_ids
            /\ Range(calls[i].chunk_ids) = Range(calls[i + 1].chunk_ids)
            /\ calls[i].stored_ids = calls[i + 1].stored_ids

\* The second of two equal calls has returned, with several records written.
C1_Witness ==
    \E i \in 1..Len(calls) :
        /\ IndexedTwice(i)
        /\ Len(calls[i + 1].chunk_ids) >= 2
        /\ calls[i + 1].indexed_count = Len(calls[i + 1].chunk_ids)

\* The loop of index has just chunked a document.
JustChunked == ipc \in {"docs", "embed"} /\ doc_pos > 1

\* C9: the chunks chunk_with_metadata made of a document carry chunk_index
\* 0, 1, ..., n-1 in emission order and total_chunks n, and in index they all
\* carry the id of that document as source_doc_id, whatever the caller's
\* metadata held under these keys.
C9_ChunkFieldsAssigned ==
    JustChunked =>
        \A k \in 1..Len(chunks_with_meta) :
            /\ chunks_with_meta[k].metadata.chunk_index = k - 1
            /\ chunks_with_meta[k].metadata.total_chunks = Len(chunks_with_meta)
            /\ chunks_with_meta[k].metadata.source_doc_id
                   = indexed_doc_ids[doc_pos - 1]

\* A document whose metadata came with chunk_index, total_chunks and
\* source_doc_id has been chunked into several chunks.
C9_Witness ==
    /\ JustChunked
    /\ request.documents[doc_pos - 1] = Doc_WithId
    /\ Len(chunks_with_meta) >= 2


\* The records of a store: the points with their collections.
RecordsOf(st) == UNION {{<<c, p>> : p \in st[c]} : c \in DOMAIN st}

\* The last index call has failed on its embedding request.
EmbeddingFailed == ipc = "idle" /\ calls # <<>> /\ Last(calls).raised

\* C16: when the embedding request of an index call fails, index fails as a
\* whole and has written nothing: the store holds the records it held before
\* the call, and at most the call's collection, empty, has been added.
C16_NothingUpsertedOnFailure ==
    EmbeddingFailed =>
        /\ RecordsOf(store) = RecordsOf(store_before)
        /\ (DOMAIN store) \ (DOMAIN store_before) \subseteq
               {Last(calls).collection}
        /\ \A c \in (DOMAIN store) \ (DOMAIN store_before) : store[c] = {}

\* An index call into a collection it had to create has failed on the
\* embedding request, after an earlier call had written records.
C16_Witness ==
    /\ EmbeddingFailed
    /\ RecordsOf(store) # {}
    /\ (DOMAIN store) \ (DOMAIN store_before) # {}
    /\ Last(calls).chunks >= 2

\* index is in a document whose chunking does not come to an end; no step
\* of the call follows.
StuckOnDocument == ipc = "chunking"

\* The stored points of the document with id d in the call's collection.
StoredOf(d) ==
    {p \in store[collection_name] : p.payload.metadata.source_doc_id = d}

\* C18: in a call with several documents the failure of one document stops
\* only that document: the others are chunked, embedded and upserted and the
\* call returns its counts.  Here: when the call has ended in a document,
\* every other document of the request that has text is in the store.
C18_OtherDocumentsIndexed ==
    (StuckOnDocument /\ Len(request.documents) > 1) =>
        \A d \in 1..Len(request.documents) :
            (d # doc_pos /\ Strip(request.documents[d].content) # <<>>) =>
                StoredOf(generate_doc_id(request.documents[d].metadata,
                                         request.documents[d].content)) # {}


\* The last index call has returned, with a vector for each of its chunks.
IndexReturned ==
    /\ ipc = "idle"
    /\ calls # <<>>
    /\ ~Last(calls).raised
    /\ Last(calls).vectors = Last(calls).chunks

\* The points the last index call wrote.
WrittenByLast ==
    {p \in store[Last(calls).collection] : p.id \in Range(Last(calls).chunk_ids)}

\* C22: after an index call has returned, the store holds of each document
\* it indexed only the chunks of the version just written: no record with
\* that source_doc_id has a chunk_index at or beyond the new total_chunks.
C22_NoStaleChunks ==
    IndexReturned =>
        \A q \in WrittenByLast :
            \A p \in store[Last(calls).collection] :
                p.payload.metadata.source_doc_id
                        = q.payload.metadata.source_doc_id =>
                    p.payload.metadata.chunk_index
                        < q.payload.metadata.total_chunks

\* The documents of a request have no explicit id and differ pairwise in
\* their URL and in their content.
DifferentDocuments(req) ==
    \A i, j \in 1..Len(req.documents) :
        /\ req.documents[i].id = <<>>
        /\ i # j =>
               /\ req.documents[i].metadata.url # req.documents[j].metadata.url
               /\ req.documents[i].content # req.documents[j].content

\* C23: different documents indexed by one call never receive the same
\* chunk id: the ids of the call's records are pairwise different, and the
\* store holds a record for each chunk of the call.
C23_DocumentsKeepApart ==
    (IndexReturned /\ DifferentDocuments(Last(calls).request)) =>
        /\ \A i, j \in 1..Len(Last(calls).chunk_ids) :
               i # j => Last(calls).chunk_ids[i] # Last(calls).chunk_ids[j]
        /\ Cardinality(WrittenByLast) = Last(calls).chunks

\* C24: delete_document(collection, D) for an id D that index returned
\* removes the document: when it has returned, no record with source_doc_id
\* D is left in the collection, and it returned true only in that case.
C24_DeleteRemovesDocument ==
    \A k \in 1..Len(deletions) :
        /\ deletions[k].remaining = 0
        /\ deletions[k].returned => deletions[k].remaining = 0

\* C25: an index call that returns has upserted one record for every
\* chunk it produced, also when the provider answered with fewer vectors
\* than texts, and every record of the collection carries the vector of
\* its own content.
C25_AllChunksOrFailure ==
    (ipc = "idle" /\ calls # <<>> /\ ~Last(calls).raised) =>
        /\ Last(calls).indexed_count = Last(calls).chunks
        /\ \A p \in store[Last(calls).collection] :
               p.vector = Vector(p.payload.content)

(***************************************************************************)
(* BM25SparseEncoder (sparse_encoder.py).  Floats are exact rationals      *)
(* [num, den] with den > 0; an IDF is the logarithm of a rational, kept as *)
(* its argument, or the constant 1.0.  A value of the sparse vector is the *)
(* sequence of the weights summed into it, each the product of an IDF and  *)
(* a rational.  Rounding is left out.                                      *)
(***************************************************************************)
MaxFits == 2

Abs(n) == IF n < 0 THEN 0 - n ELSE n

RECURSIVE Gcd(_, _)
Gcd(a, b) == IF b = 0 THEN a ELSE Gcd(b, a % b)

\* The rational n/d (d # 0) in lowest terms with a positive denominator.
Rat(n, d) ==
    LET g == Gcd(Abs(n), Abs(d))
        sgn == IF d < 0 THEN 0 - 1 ELSE 1
    IN  [num |-> sgn * (n \div g), den |-> sgn * (d \div g)]

FromInt(n) == [num |-> n, den |-> 1]
RAdd(x, y) == Rat(x.num * y.den + y.num * x.den, x.den * y.den)
RSub(x, y) == Rat(x.num * y.den - y.num * x.den, x.den * y.den)
RMul(x, y) == Rat(x.num * y.num, x.den * y.den)
RDiv(x, y) == Rat(x.num * y.den, x.den * y.num)
RLess(x, y) == x.num * y.den < y.num * x.den

\* __init__'s defaults k1 = 1.5, b = 0.75, and the 0.5 and 1.5 of the IDFs.
K1 == [num |-> 3, den |-> 2]
B == [num |-> 3, den |-> 4]
Half == [num |-> 1, den |-> 2]
min_token_length == 2

\* [a-z0-9_], and \w: the letters outside ASCII are word characters too.
TokenAlphabet == LowerCase \o Digits \o <<"_">>
IsTokenChar(ch) == \E i \in 1..Len(TokenAlphabet) : TokenAlphabet[i] = ch
IsWordChar(ch) == IsTokenChar(ch) \/ ch = "é"

\* The maximal runs of word characters of str from position k on.
RECURSIVE WordRuns(_, _, _)
WordRuns(str, k, cur) ==
    IF k > Len(str) THEN (IF cur = <<>> THEN <<>> ELSE <<cur>>)
    ELSE IF IsWordChar(str[k]) THEN WordRuns(str, k + 1, Append(cur, str[k]))
    ELSE (IF cur = <<>> THEN <<>> ELSE <<cur>>) \o WordRuns(str, k + 1, <<>>)

IsToken(run) ==
    /\ \A i \in 1..Len(run) : IsTokenChar(run[i])
    /\ Len(run) >= min_token_length

\* tokenize(text): re.findall(r'\b[a-z0-9_]+\b', text.lower()), then the
\* length filter.  A match runs from one word boundary to another, so it is
\* a whole run of word characters.
tokenize(str) == SelectSeq(WordRuns(Lower(str), 1, <<>>), IsToken)

\* The first 8 bytes of the MD5 digest as an integer: a fixed function of
\* the token, here its value as a numeral in base 38.
RECURSIVE Md5Int(_)
Md5Int(token) ==
    IF token = <<>> THEN 0
    ELSE Md5Int(SubSeq(token, 1, Len(token) - 1)) * 38
             + (CHOOSE i \in 1..Len(TokenAlphabet) :
                    TokenAlphabet[i] = token[Len(token)])

\* _hash_token(token)
hash_token(token, vsize) == Md5Int(token) % vsize

\* An IDF without the "+ 1" under the logarithm.
bm25_idf_without_one(n_docs, doc_freq) ==
    [log |-> TRUE,
     arg |-> RDiv(RAdd(FromInt(n_docs - doc_freq), Half),
                  RAdd(FromInt(doc_freq), Half))]

\* The IDF update_idf_from_corpus stores:
\* log((doc_count - doc_freq + 0.5) / (doc_freq + 0.5) + 1).
bm25_idf(n_docs, doc_freq) ==
    [log |-> TRUE,
     arg |-> RAdd(RDiv(RAdd(FromInt(n_docs - doc_freq), Half),
                       RAdd(FromInt(doc_freq), Half)),
                  FromInt(1))]

\* get_idf(token) over the table tbl and the document count n_docs.
get_idf(tbl, n_docs, token) ==
    IF \E e \in tbl : e.token = token
    THEN (CHOOSE e \in tbl : e.token = token).value
    ELSE IF n_docs > 0
         THEN [log |-> TRUE,
               arg |-> RDiv(FromInt(n_docs + 1), RAdd(FromInt(1), Half))]
         ELSE [log |-> FALSE, arg |-> FromInt(1)]

Count(seq, x) == Cardinality({k \in 1..Len(seq) : seq[k] = x})

\* The keys of Counter(tokens), in the order of their first occurrence.
Distinct(seq) ==
    SelectSeq([k \in 1..Len(seq) |->
                  IF \E j \in 1..(k - 1) : seq[j] = seq[k] THEN <<>>
                  ELSE seq[k]],
              LAMBDA x : x # <<>>)

\* sorted(S) for a set of integers.
RECURSIVE Sorted(_)
Sorted(S) ==
    IF S = {} THEN <<>>
    ELSE LET m == CHOOSE x \in S : \A y \in S : x <= y
         IN  <<m>> \o Sorted(S \ {m})

\* The weight encode gives a token that occurs tf times in a text of
\* doc_length tokens.
bm25_weight(tbl, n_docs, avg, token, tf, doc_length) ==
    LET length_norm == RAdd(RSub(FromInt(1), B),
                            RMul(B, RDiv(FromInt(doc_length), avg)))
        tf_weight == RDiv(RMul(FromInt(tf), RAdd(K1, FromInt(1))),
                          RAdd(FromInt(tf), RMul(K1, length_norm)))
    IN  [idf |-> get_idf(tbl, n_docs, token), tf_weight |-> tf_weight]

\* encode(text): doc_length / avg_doc_length raises for an average of zero.
encode(tbl, n_docs, avg, vsize, str) ==
    LET tokens == tokenize(str)
        keys == Distinct(tokens)
        weights == [k \in 1..Len(keys) |->
                       bm25_weight(tbl, n_docs, avg, keys[k],
                                   Count(tokens, keys[k]), Len(tokens))]
        idxs == [k \in 1..Len(keys) |-> hash_token(keys[k], vsize)]
        indices == Sorted({idxs[k] : k \in 1..Len(keys)})
        summed(i) == [k \in 1..Len(keys) |->
                         IF idxs[k] = i THEN <<weights[k]>> ELSE <<>>]
        Flat(ss) == LET F[n \in 0..Len(ss)] ==
                            IF n = 0 THEN <<>> ELSE F[n - 1] \o ss[n]
                    IN  F[Len(ss)]
    IN  IF tokens = <<>>
        THEN [called |-> TRUE, raised |-> FALSE, text |-> str,
              indices |-> <<>>, values |-> <<>>]
        ELSE IF avg.num = 0
        THEN [called |-> TRUE, raised |-> TRUE, text |-> str,
              indices |-> <<>>, values |-> <<>>]
        ELSE [called |-> TRUE, raised |-> FALSE, text |-> str,
              indices |-> indices,
              values |-> [j \in 1..Len(indices) |->
                             Flat(summed(indices[j]))]]


\* The texts given to the encoder, as documents of a corpus and as texts to
\* encode.
Txt_Empty == <<>>
Txt_Short == <<"a", " ", "b">>
Txt_Ab == <<"a", "b">>
Txt_Mixed == <<"A", "B", " ", "c", "d", ".", "b", "a", " ", "a", "b">>
Txt_Accent == <<"a", "b", "é", " ", "c", "_", "1">>
Txt_Cd == <<"c", "d", " ", "c", "d">>

EncoderTexts == {Txt_Empty, Txt_Short, Txt_Ab, Txt_Mixed, Txt_Accent, Txt_Cd}

Corpora == {<<>>, <<Txt_Short>>, <<Txt_Ab>>, <<Txt_Ab, Txt_Mixed>>,
            <<Txt_Cd, Txt_Accent, Txt_Mixed>>}

VocabSizes == {1, 3, 30000}

RECURSIVE SumLen(_)
SumLen(ss) == IF ss = <<>> THEN 0 ELSE Len(ss[1]) + SumLen(Tail(ss))

InitEncoder ==
    /\ vocab_size \in VocabSizes
    /\ NewEncoder

\* update_idf_from_corpus(documents)
UpdateIdf(documents) ==
    /\ fits < MaxFits
    /\ UNCHANGED not_encoder
    /\ fits' = fits + 1
    /\ doc_count' = Len(documents)
    /\ LET tokenized == [d \in 1..Len(documents) |-> tokenize(documents[d])]
           seen == UNION {Range(tokenized[d]) : d \in 1..Len(documents)}
           df(token) == Cardinality({d \in 1..Len(documents) :
                                         token \in Range(tokenized[d])})
           total_length == SumLen(tokenized)
       IN  IF Len(documents) = 0
           THEN UNCHANGED <<idf, avg_doc_length>>
           ELSE /\ avg_doc_length' = Rat(total_length, Len(documents))
                /\ idf' = {e \in idf : e.token \notin seen}
                          \cup {[token |-> t,
                                 value |-> bm25_idf(Len(documents), df(t))] :
                                    t \in seen}
    /\ corpus' = documents
    /\ UNCHANGED <<vocab_size, encoded, encoded_at>>

\* An encode that counts the text it is given as a document of the corpus.
EncodeCounting(str) ==
    /\ UNCHANGED not_encoder
    /\ encoded' = encode(idf, doc_count, avg_doc_length, vocab_size, str)
    /\ encoded_at' = fits
    /\ doc_count' = doc_count + 1
    /\ UNCHANGED <<vocab_size, idf, avg_doc_length, fits, corpus>>

\* encode(text), with what it returned kept in encoded.
Encode(str) ==
    /\ UNCHANGED not_encoder
    /\ encoded' = encode(idf, doc_count, avg_doc_length, vocab_size, str)
    /\ encoded_at' = fits
    /\ UNCHANGED <<vocab_size, idf, avg_doc_length, doc_count, fits, corpus>>

NextEncoder ==
    \/ \E documents \in Corpora : UpdateIdf(documents)
    \/ \E str \in EncoderTexts : Encode(str)

EncoderInit == InitEncoder /\ IdleChunker /\ IdleIndex /\ IdleIdentity /\ IdleEmbed /\ IdleEnsure /\ IdleSearch /\ IdleDelete /\ IdleEngine /\ IdleTier

EncoderSpec == EncoderInit /\ [][NextEncoder]_vars

\* ln(arg) > 0, or the constant arg > 0.
IdfPositive(v) ==
    IF v.log THEN RLess(FromInt(1), v.arg) ELSE RLess(FromInt(0), v.arg)

\* A value is the sum of its weights: positive when each of them is.
ValuePositive(v) ==
    /\ v # <<>>
    /\ \A k \in 1..Len(v) :
           IdfPositive(v[k].idf) /\ RLess(FromInt(0), v[k].tf_weight)

EncodeReturned == encoded.called /\ ~encoded.raised

\* C10: the vector encode returns has strictly increasing indices, each in
\* [0, vocab_size), as many values as indices, and every value > 0, in every
\* state of the encoder that update_idf_from_corpus calls lead to.
C10_SparseVectorWellFormed ==
    EncodeReturned =>
        /\ Len(encoded.indices) = Len(encoded.values)
        /\ \A j \in 1..Len(encoded.indices) :
               /\ 0 <= encoded.indices[j]
               /\ encoded.indices[j] < vocab_size
               /\ j > 1 => encoded.indices[j - 1] < encoded.indices[j]
        /\ \A j \in 1..Len(encoded.values) : ValuePositive(encoded.values[j])

\* After a corpus was fitted, encode returned several indices, one of them
\* shared by two tokens, with a token that every fitted document holds.
C10_Witness ==
    /\ EncodeReturned
    /\ doc_count > 0
    /\ Len(encoded.indices) >= 2
    /\ \E j \in 1..Len(encoded.values) : Len(encoded.values[j]) >= 2
    /\ \E j \in 1..Len(encoded.values) : \E k \in 1..Len(encoded.values[j]) :
           encoded.values[j][k].idf.log
               /\ RLess(encoded.values[j][k].idf.arg, FromInt(1 + 1))


\* C29: after any calls of update_idf_from_corpus, with the empty list or
\* with documents that hold no token, encode returns a sparse vector for
\* every text: no call of encode has failed.
C29_EncodeNeverFails == encoded.called => ~encoded.raised

\* The statistics encode reads.
Statistics == <<vocab_size, idf, avg_doc_length, doc_count>>

\* What is kept of the last encode call is what encode gives for its text on
\* the statistics of now, by whichever updates they were reached.
ResultOfStatistics ==
    (encoded.called /\ encoded_at = fits) =>
        encoded = encode(idf, doc_count, avg_doc_length, vocab_size,
                         encoded.text)

\* C11: encode changes neither the idf table, doc_count nor avg_doc_length;
\* called again on the same text with no update in between it returns the
\* same (indices, values); and what it returns is fixed by vocab_size, the
\* corpus statistics and the text.  A step that leaves fits alone is a call
\* of encode.
C11_EncodeReadOnly ==
    [][/\ ResultOfStatistics
       /\ fits' = fits =>
              /\ Statistics' = Statistics
              /\ (encoded.called /\ encoded_at = fits
                      /\ encoded'.text = encoded.text) => encoded' = encoded]_vars

\* encode has returned a vector with several weights on statistics learned
\* from two corpora.
C11_Witness ==
    /\ EncodeReturned
    /\ encoded_at = fits
    /\ fits = 2
    /\ doc_count > 1
    /\ Len(encoded.indices) >= 1
    /\ \E e \in idf : e.token \notin Range(tokenize(encoded.text))


\* The tokens get_idf is asked for: those of the texts, and one of no text.
ProbeTokens ==
    UNION {Range(tokenize(t)) : t \in EncoderTexts} \cup {<<"z", "z">>}

\* The number of documents of the last corpus that hold the token.
DocFreq(token) ==
    Cardinality({d \in 1..Len(corpus) : token \in Range(tokenize(corpus[d]))})

\* The IDF the last fitted corpus alone gives a token.
IdfOfLastCorpus(token) ==
    IF DocFreq(token) > 0 THEN bm25_idf(Len(corpus), DocFreq(token))
    ELSE IF Len(corpus) > 0
         THEN [log |-> TRUE,
               arg |-> RDiv(FromInt(Len(corpus) + 1), RAdd(FromInt(1), Half))]
         ELSE [log |-> FALSE, arg |-> FromInt(1)]

\* C12: after any updates, get_idf gives a token of the last fitted corpus
\* log((N - df + 0.5)/(df + 0.5) + 1) and any other token the default
\* (log((N+1)/1.5), or 1.0 with no corpus fitted), never a value learned
\* from an earlier corpus.
C12_IdfFromLastCorpus ==
    \A token \in ProbeTokens :
        get_idf(idf, doc_count, token) = IdfOfLastCorpus(token)


(***************************************************************************)
(* generate_doc_id and the chunk id, each called once on arguments drawn   *)
(* from the sets below.                                                    *)
(***************************************************************************)
Str_MyLib == <<"M", "y", " ", "L", "i", "b">>
Str_Bar == <<"B", "a", "r">>
Str_baZ == <<"b", "a", "Z">>
Str_UrlIndex == <<"h", "/", "i", "n", "d", "e", "x", ".", "h", "t", "m", "l">>
Str_UrlWww == <<"w", "w", "w", "/">>
Str_UrlDeep == <<"h", "/", "a", "/", "b", "/", "c", ".", "h", "t", "m", "l", "/">>

\* Contents around the 500 characters the hash fallback reads: two that
\* differ behind them, and one that differs within them.
Text_Long == [i \in 1..(HashPrefixLen + 1) |-> "a"]
Text_LongTail == [i \in 1..(HashPrefixLen + 1) |->
                     IF i > HashPrefixLen THEN "b" ELSE "a"]
Text_LongHead == [i \in 1..(HashPrefixLen + 1) |->
                     IF i = HashPrefixLen THEN "b" ELSE "a"]

IdMetadata ==
    {[NoMetadata EXCEPT !.library = l, !.module = m, !.symbol = y, !.url = u] :
        l \in {<<>>, Str_Foo, Str_MyLib}, m \in {<<>>, Str_Bar},
        y \in {<<>>, Str_baZ},
        u \in {<<>>, Str_Url, Str_UrlIndex, Str_UrlWww, Str_UrlDeep}}

IdContents == {Text_Two, Text_Three, Text_Long, Text_LongTail, Text_LongHead}

\* Chunks as index holds them when it computes the record id.
IdChunks ==
    {[content |-> c,
      metadata |-> [NoMetadata EXCEPT !.source_doc_id = d, !.chunk_index = k,
                                      !.ingested_at = <<t>>]] :
        c \in {Text_Two, Text_Three},
        d \in {<<"a">>, <<"a", "1">>, Str_Foo,
               <<"a", ":", "c", "h", "u", "n", "k", ":", "1">>},
        k \in {0, 1, 2, 12}, t \in {1, 2}}

InitIdentity ==
    /\ id_metadata \in IdMetadata
    /\ id_content \in IdContents
    /\ id_chunk \in IdChunks
    /\ id_called = {}
    /\ id_doc = <<>>
    /\ id_record = <<>>

\* doc_id = generate_doc_id(doc.metadata, doc.content)
GenerateDocId ==
    /\ "generate_doc_id" \notin id_called
    /\ UNCHANGED not_identity
    /\ id_doc' = generate_doc_id(id_metadata, id_content)
    /\ id_called' = id_called \cup {"generate_doc_id"}
    /\ UNCHANGED <<id_metadata, id_content, id_chunk, id_record>>

\* chunk_uuid = str(uuid.uuid5(uuid.NAMESPACE_DNS, chunk_id_input))
ChunkUuid ==
    /\ "chunk_uuid" \notin id_called
    /\ UNCHANGED not_identity
    /\ id_record' = chunk_uuid(id_chunk)
    /\ id_called' = id_called \cup {"chunk_uuid"}
    /\ UNCHANGED <<id_metadata, id_content, id_chunk, id_doc>>

NextIdentity == GenerateDocId \/ ChunkUuid

IdentityInit == InitIdentity /\ IdleChunker /\ IdleIndex /\ IdleEncoder /\ IdleEmbed /\ IdleEnsure /\ IdleSearch /\ IdleDelete /\ IdleEngine /\ IdleTier

IdentitySpec == IdentityInit /\ [][NextIdentity]_vars

\* A field lower-cased, its spaces made underscores.
Normalized(str) ==
    [i \in 1..Len(str) |-> IF str[i] = " " THEN "_" ELSE LowerChar(str[i])]

\* The structured key: the fields that are set, in the order library, module,
\* symbol, joined by colons.
StructuredKey(m) ==
    JoinWith(SelectSeq(<<Normalized(m.library), Normalized(m.module),
                         m.symbol>>, NonEmpty), <<":">>)

\* The last three segments of the URL's path that are neither empty nor
\* index.html nor www.
TrailingSegments(url) ==
    SelectSeq(LastN(SplitOn(RStripChar(url, "/"), "/"), 3), NotTrivialPart)

UrlDerivedId(url) ==
    ReplaceAll(ReplaceAll(JoinWith(TrailingSegments(url), <<":">>),
                          <<".", "h", "t", "m", "l">>, <<>>),
               <<".", "m", "d">>, <<>>)

DocIdGenerated == "generate_doc_id" \in id_called

HasStructuredField(m) ==
    m.library # <<>> \/ m.module # <<>> \/ m.symbol # <<>>

\* C13: generate_doc_id gives the structured key whenever library, module or
\* symbol is set, whatever the url and the content; else the URL-derived id
\* when the url has a non-trivial trailing segment; else "doc:" and the
\* digest of the url and the first 500 characters of the content.
C13_DocIdPriority ==
    DocIdGenerated =>
        IF HasStructuredField(id_metadata)
        THEN id_doc = StructuredKey(id_metadata)
        ELSE IF id_metadata.url # <<>>
                    /\ TrailingSegments(id_metadata.url) # <<>>
             THEN id_doc = UrlDerivedId(id_metadata.url)
             ELSE id_doc = <<"d", "o", "c", ":">>
                      \o Sha256Hex12(id_metadata.url
                             \o SubSeq(id_content, 1,
                                       Min(Len(id_content), HashPrefixLen)))

\* A document with a library, a symbol and a usable url has got its id.
C13_Witness ==
    /\ DocIdGenerated
    /\ id_metadata.library = Str_MyLib
    /\ id_metadata.symbol = Str_baZ
    /\ id_metadata.url = Str_Url
    /\ id_doc = <<"m", "y", "_", "l", "i", "b", ":", "b", "a", "Z">>


RecordIdComputed == "chunk_uuid" \in id_called

SamePosition(a, b) ==
    /\ a.metadata.source_doc_id = b.metadata.source_doc_id
    /\ a.metadata.chunk_index = b.metadata.chunk_index

\* C14: the record id of a chunk is fixed by (source_doc_id, chunk_index):
\* a chunk with the same pair gets the same id whatever its content and its
\* time of ingestion, and a chunk with another pair gets another id.
C14_RecordIdOfPosition ==
    RecordIdComputed =>
        \A other \in IdChunks :
            (chunk_uuid(other) = id_record) <=> SamePosition(other, id_chunk)

\* The id of chunk 12 of document "a" is computed; chunk 2 of document "a1"
\* and the same chunk with another content and time are among the others.
C14_Witness ==
    /\ RecordIdComputed
    /\ id_chunk.metadata.source_doc_id = <<"a">>
    /\ id_chunk.metadata.chunk_index = 12
    /\ \E other \in IdChunks :
           /\ SamePosition(other, id_chunk)
           /\ other.content # id_chunk.content
           /\ other.metadata.ingested_at # id_chunk.metadata.ingested_at


(***************************************************************************)
(* EmbeddingClient.embed_batch.  The provider answers a request with the   *)
(* vectors, with a failure httpx reports as an HTTPError (no connection,   *)
(* a timeout, a 4xx or 5xx status through raise_for_status), or with a     *)
(* 200 whose body is not the JSON expected, which raises another error.    *)
(***************************************************************************)
max_retries == 3
retry_delay == 2

\* The failures that are instances of httpx.HTTPError.
HttpErrors == {"network", "timeout", "status_4xx", "status_404", "status_5xx"}

\* "ok_short" is a 200 with a vector less than there were texts.
Responses == HttpErrors \cup {"ok", "ok_short", "bad_body"}

\* The counts of texts of a call.
TextCounts == 0..2

\* A sleep that does not grow with the attempts.
BackoffConstant(k) == retry_delay

\* asyncio.sleep(self.retry_delay * (attempt + 1))
Backoff(k) == retry_delay * (k + 1)

\* attempt < self.max_retries - 1
RetryLeft(k) == k < max_retries - 1

InitEmbed ==
    /\ emb_pc = "idle"
    /\ emb_texts \in TextCounts
    /\ attempt = 0
    /\ responses = <<>>
    /\ sleeps = <<>>
    /\ emb_result = [vectors |-> 0, error |-> "none"]

\* embed_batch(texts) up to the first request; [] at once for no text.
EmbedBatch ==
    /\ emb_pc = "idle"
    /\ UNCHANGED not_embed
    /\ emb_pc' = IF emb_texts = 0 THEN "returned" ELSE "request"
    /\ UNCHANGED <<emb_texts, attempt, responses, sleeps, emb_result>>

\* The request of this attempt is answered with r.
Respond(r) ==
    /\ emb_pc = "request"
    /\ attempt < max_retries
    /\ UNCHANGED not_embed
    /\ responses' = Append(responses, r)
    /\ IF r \in {"ok", "ok_short"}
       THEN /\ emb_pc' = "returned"
            /\ emb_result' = [vectors |-> IF r = "ok" THEN emb_texts
                                          ELSE emb_texts - 1,
                              error |-> "none"]
            /\ UNCHANGED sleeps
       ELSE IF r \in HttpErrors
       THEN IF RetryLeft(attempt)
            THEN /\ emb_pc' = "sleep"
                 /\ sleeps' = Append(sleeps, Backoff(attempt))
                 /\ UNCHANGED emb_result
            ELSE /\ emb_pc' = "raised"
                 /\ emb_result' = [vectors |-> 0, error |-> "RuntimeError"]
                 /\ UNCHANGED sleeps
       ELSE /\ emb_pc' = "raised"
            /\ emb_result' = [vectors |-> 0, error |-> "ValueError"]
            /\ UNCHANGED sleeps
    /\ UNCHANGED <<emb_texts, attempt>>

\* The sleep is over: continue with the next attempt.
Wake ==
    /\ emb_pc = "sleep"
    /\ UNCHANGED not_embed
    /\ attempt' = attempt + 1
    /\ emb_pc' = "request"
    /\ UNCHANGED <<emb_texts, responses, sleeps, emb_result>>

NextEmbed ==
    \/ EmbedBatch
    \/ \E r \in Responses : Respond(r)
    \/ Wake

EmbedInit == InitEmbed /\ IdleChunker /\ IdleIndex /\ IdleEncoder /\ IdleIdentity /\ IdleEnsure /\ IdleSearch /\ IdleDelete /\ IdleEngine /\ IdleTier

EmbedSpec == EmbedInit /\ [][NextEmbed]_vars


IsOk(r) == r \in {"ok", "ok_short"}

\* The transient failures: no connection, a timeout, an error of the server.
Transient == {"network", "timeout", "status_5xx"}

\* The provider has answered with vectors or with transient failures only.
OnlyTransient ==
    \A i \in 1..Len(responses) : IsOk(responses[i]) \/ responses[i] \in Transient

FailedSoFar == Cardinality({i \in 1..Len(responses) : ~IsOk(responses[i])})

\* C15: embed_batch makes at most max_retries requests and none after a
\* successful response, with which it returns; it sleeps retry_delay * k
\* after the k-th failed attempt unless that was the last one, whether the
\* failure was a timeout or another transient one; and it raises once
\* max_retries attempts have failed, not before.
C15_RetryBudgetAndBackoff ==
    /\ Len(responses) <= max_retries
    /\ \A i \in 1..(Len(responses) - 1) : ~IsOk(responses[i])
    /\ (responses # <<>> /\ IsOk(Last(responses))) => emb_pc = "returned"
    /\ sleeps = [k \in 1..Len(sleeps) |-> retry_delay * k]
    /\ OnlyTransient =>
           /\ Len(sleeps) = Min(FailedSoFar, max_retries - 1)
           /\ emb_pc = "raised" <=> FailedSoFar = max_retries
           /\ emb_pc = "raised" => emb_result.error # "none"
           /\ emb_pc = "sleep" => Len(sleeps) = FailedSoFar

\* The call has raised after a timeout, a refused connection and an error
\* of the server, having slept 2 and 4 seconds.
C15_Witness ==
    /\ emb_pc = "raised"
    /\ responses = <<"timeout", "network", "status_5xx">>
    /\ sleeps = <<retry_delay, retry_delay + retry_delay>>

\* C17: a 4xx response other than 404 is not retried: embed_batch has made
\* exactly one request when it fails on it, and makes no further one.
C17_PermanentErrorNotRetried ==
    (responses # <<>> /\ responses[1] = "status_4xx") =>
        /\ Len(responses) = 1
        /\ emb_pc = "raised"


(***************************************************************************)
(* Collection provisioning: RAGQueryEngine.ensure_collection run by        *)
(* several requests against one Qdrant server                              *)
(* (query_engine.py, vector_db/qdrant_client.py).                          *)
(***************************************************************************)

\* The callers of ensure_collection.
MaxTasks == 2

Tasks == 1..MaxTasks

\* RAGConfig.embedding_dimensions.
embedding_dimensions == 768

CollectionNames == {Str_Documents, Str_Other}

\* What the server keeps of a collection created by create_collection: with
\* enable_hybrid the named vector "dense" and the sparse vector "sparse",
\* otherwise one unnamed vector.
CollectionOf(name, vector_size, hybrid) ==
    [name |-> name, size |-> vector_size, named |-> hybrid,
     sparse |-> hybrid]

\* A collection of another origin: one unnamed vector of another size.
LegacyCollection(name) ==
    [name |-> name, size |-> 384, named |-> FALSE, sparse |-> FALSE]

NamesOf(cols) == {cols[i].name : i \in 1..Len(cols)}

\* ensure_collection has not been called: the server holds no collection
\* or an older one, and the store was built with or without hybrid search.
InitEnsure ==
    /\ collections \in {<<>>, <<LegacyCollection(Str_Other)>>}
    /\ enable_hybrid \in BOOLEAN
    /\ ens_pc = [t \in Tasks |-> "idle"]
    /\ ens_name = [t \in Tasks |-> <<>>]
    /\ ens_seen = [t \in Tasks |-> "none"]
    /\ ens_answer = [t \in Tasks |-> "none"]

\* ensure_collection(name) up to the answer of collection_exists: the
\* caller goes on to create_collection only when the answer is False.
CollectionExists(t, name) ==
    /\ ens_pc[t] = "idle"
    /\ ens_name' = [ens_name EXCEPT ![t] = name]
    /\ IF name \in NamesOf(collections)
          THEN /\ ens_seen' = [ens_seen EXCEPT ![t] = "present"]
               /\ ens_pc' = [ens_pc EXCEPT ![t] = "done"]
          ELSE /\ ens_seen' = [ens_seen EXCEPT ![t] = "missing"]
               /\ ens_pc' = [ens_pc EXCEPT ![t] = "create"]
    /\ UNCHANGED <<collections, enable_hybrid, ens_answer>>
    /\ UNCHANGED not_ensure

\* collection_exists answers False on any exception of get_collections,
\* whatever the server holds.
CollectionExistsFails(t, name) ==
    /\ ens_pc[t] = "idle"
    /\ ens_name' = [ens_name EXCEPT ![t] = name]
    /\ ens_seen' = [ens_seen EXCEPT ![t] = "unknown"]
    /\ ens_pc' = [ens_pc EXCEPT ![t] = "create"]
    /\ UNCHANGED <<collections, enable_hybrid, ens_answer>>
    /\ UNCHANGED not_ensure

\* create_collection reached by a caller that raises the server's
\* "already exists" instead of returning True.
CreateCollectionStrict(t) ==
    /\ ens_pc[t] = "create"
    /\ IF ens_name[t] \in NamesOf(collections)
          THEN /\ ens_answer' = [ens_answer EXCEPT ![t] = "already exists"]
               /\ ens_pc' = [ens_pc EXCEPT ![t] = "raised"]
               /\ UNCHANGED collections
          ELSE /\ ens_answer' = [ens_answer EXCEPT ![t] = "created"]
               /\ ens_pc' = [ens_pc EXCEPT ![t] = "done"]
               /\ collections' =
                      Append(collections,
                             CollectionOf(ens_name[t], embedding_dimensions,
                                          enable_hybrid))
    /\ UNCHANGED <<enable_hybrid, ens_name, ens_seen>>
    /\ UNCHANGED not_ensure

\* create_collection(name, embedding_dimensions, "Cosine"): the server
\* creates the collection unless it holds one of that name, and then
\* answers with an UnexpectedResponse saying "already exists", on which
\* create_collection returns True as it does after a creation.
CreateCollection(t) ==
    /\ ens_pc[t] = "create"
    /\ IF ens_name[t] \in NamesOf(collections)
          THEN /\ ens_answer' = [ens_answer EXCEPT ![t] = "already exists"]
               /\ UNCHANGED collections
          ELSE /\ ens_answer' = [ens_answer EXCEPT ![t] = "created"]
               /\ collections' =
                      Append(collections,
                             CollectionOf(ens_name[t], embedding_dimensions,
                                          enable_hybrid))
    /\ ens_pc' = [ens_pc EXCEPT ![t] = "done"]
    /\ UNCHANGED <<enable_hybrid, ens_name, ens_seen>>
    /\ UNCHANGED not_ensure

\* Any other UnexpectedResponse of the server is raised again.
CreateCollectionFails(t) ==
    /\ ens_pc[t] = "create"
    /\ ens_answer' = [ens_answer EXCEPT ![t] = "error"]
    /\ ens_pc' = [ens_pc EXCEPT ![t] = "raised"]
    /\ UNCHANGED <<collections, enable_hybrid, ens_name, ens_seen>>
    /\ UNCHANGED not_ensure

NextEnsure ==
    \/ \E t \in Tasks, name \in CollectionNames : CollectionExists(t, name)
    \/ \E t \in Tasks, name \in CollectionNames :
           CollectionExistsFails(t, name)
    \/ \E t \in Tasks : CreateCollection(t)
    \/ \E t \in Tasks : CreateCollectionFails(t)

EnsureInit == InitEnsure /\ IdleChunker /\ IdleIndex /\ IdleEncoder /\ IdleIdentity /\ IdleEmbed /\ IdleSearch /\ IdleDelete /\ IdleEngine /\ IdleTier

EnsureSpec == EnsureInit /\ [][NextEnsure]_vars


\* The collections of that name the server holds.
Held(name) == {i \in 1..Len(collections) : collections[i].name = name}

\* Two callers have both been told that the collection is missing and have
\* both called create_collection for it, and the server has answered each
\* with a creation or with "already exists".
RacedFor(t, u) ==
    /\ t # u
    /\ ens_name[t] = ens_name[u]
    /\ ens_seen[t] = "missing" /\ ens_seen[u] = "missing"
    /\ ens_answer[t] \in {"created", "already exists"}
    /\ ens_answer[u] \in {"created", "already exists"}

\* C19: when two callers of ensure_collection have both read that the
\* collection is missing and have both called create_collection, neither
\* has raised, and the server holds the collection exactly once, with the
\* configured vector size; at most one of them created it, the other was
\* answered "already exists".
C19_ConcurrentEnsureTolerated ==
    \A t, u \in Tasks :
        RacedFor(t, u) =>
            /\ ens_pc[t] = "done" /\ ens_pc[u] = "done"
            /\ Cardinality(Held(ens_name[t])) = 1
            /\ \A i \in Held(ens_name[t]) :
                   collections[i].size = embedding_dimensions
            /\ "already exists" \in {ens_answer[t], ens_answer[u]}

\* Both callers found "documents" missing, the first created it and the
\* second was answered "already exists".
C19_Witness ==
    /\ RacedFor(1, 2)
    /\ ens_name[1] = Str_Documents
    /\ ens_answer[1] = "created"
    /\ ens_answer[2] = "already exists"
    /\ ens_pc[2] = "done"


(***************************************************************************)
(* Retrieval: QdrantVectorDB.search and QdrantVectorDB.hybrid_search       *)
(* (vector_db/qdrant_client.py).  A point carries its similarity to the    *)
(* query: dense in hundredths, sparse as a whole number, 0 when no token   *)
(* of the query occurs in it.                                              *)
(***************************************************************************)

MaxLimit == 2

Str_IdA == "a"
Str_IdB == "b"
Str_IdC == "c"

\* Every point matches the query's tokens; the sparse order is c, a, b.
Points_AllMatch ==
    {[id |-> Str_IdA, dense |-> 90, sparse |-> 2],
     [id |-> Str_IdB, dense |-> 70, sparse |-> 1],
     [id |-> Str_IdC, dense |-> 40, sparse |-> 3]}

\* Only b matches the query's tokens.
Points_OneMatch ==
    {[id |-> Str_IdA, dense |-> 90, sparse |-> 0],
     [id |-> Str_IdB, dense |-> 70, sparse |-> 5],
     [id |-> Str_IdC, dense |-> 40, sparse |-> 0]}

\* a is the best dense and the best sparse match; b matches no token.
Points_TopBoth ==
    {[id |-> Str_IdA, dense |-> 90, sparse |-> 4],
     [id |-> Str_IdB, dense |-> 70, sparse |-> 0],
     [id |-> Str_IdC, dense |-> 40, sparse |-> 3]}

PointSets == {{}, Points_AllMatch, Points_OneMatch, Points_TopBoth}

\* Optional[float] min_score: None, or a threshold in hundredths.
MinScores == {<<>>, <<60>>, <<80>>}

\* The vector configurations a collection can have: named vectors or one
\* unnamed vector, with or without the sparse vector "sparse".
Targets == [named : BOOLEAN, sparse : BOOLEAN]

NotCalled == [called |-> FALSE, raised |-> FALSE, hits |-> <<>>]

\* The call ended with an exception.
Raised == [called |-> TRUE, raised |-> TRUE, hits |-> <<>>]

\* The call returned the formatted hits.
ReturnedHits(hits) == [called |-> TRUE, raised |-> FALSE, hits |-> hits]

\* The hits in descending order of score (the inputs have no equal scores).
RECURSIVE Ranked(_)
Ranked(scored) ==
    IF scored = {} THEN <<>>
    ELSE LET best == CHOOSE h \in scored :
                         \A g \in scored : ~RLess(h.score, g.score)
         IN  <<best>> \o Ranked(scored \ {best})

FirstN(seq, n) == SubSeq(seq, 1, Min(n, Len(seq)))

\* score_threshold: no filter when None.
AboveThreshold(scored, threshold) ==
    IF threshold = <<>> THEN scored
    ELSE {h \in scored : ~RLess(h.score, Rat(threshold[1], 100))}

DenseScored(pts) == {[id |-> p.id, score |-> Rat(p.dense, 100)] : p \in pts}

SparseScored(pts) ==
    {[id |-> p.id, score |-> FromInt(p.sparse)] : p \in {q \in pts : q.sparse > 0}}

\* client.query_points(query=query_vector, using=..., limit=limit,
\* score_threshold=min_score).points: the server refuses the vector name
\* "dense" on a collection with one unnamed vector, and a query without a
\* name on a collection with named vectors.
QueryPoints(col, pts, using, lim, threshold) ==
    IF (using = "dense") # col.named THEN Raised
    ELSE ReturnedHits(FirstN(Ranked(AboveThreshold(DenseScored(pts), threshold)),
                         lim))

\* What a list contributes to the fused score of a point: 1 / (2 + rank),
\* the rank counted from 0, and nothing when the point is not in the list.
RrfTerm(list, id) ==
    IF \E i \in 1..Len(list) : list[i].id = id
    THEN Rat(1, 1 + (CHOOSE i \in 1..Len(list) : list[i].id = id))
    ELSE FromInt(0)

\* A fused query whose prefetches give their best limit points only.
QueryFusionNarrow(col, pts, lim, threshold) ==
    IF ~col.named \/ ~col.sparse THEN Raised
    ELSE LET dense == FirstN(Ranked(DenseScored(pts)), lim)
             sparse == FirstN(Ranked(SparseScored(pts)), lim)
             ids == {dense[i].id : i \in 1..Len(dense)}
                        \cup {sparse[i].id : i \in 1..Len(sparse)}
             fused == {[id |-> i,
                        score |-> RAdd(RrfTerm(dense, i), RrfTerm(sparse, i))]
                       : i \in ids}
         IN  ReturnedHits(FirstN(Ranked(AboveThreshold(fused, threshold)), lim))

\* client.query_points(prefetch=[dense, sparse], query=FusionQuery(RRF),
\* limit=limit, score_threshold=min_score).points: each prefetch gives its
\* best 2 * limit points, and the server refuses a vector name the
\* collection does not have.
QueryFusion(col, pts, lim, threshold) ==
    IF ~col.named \/ ~col.sparse THEN Raised
    ELSE LET dense == FirstN(Ranked(DenseScored(pts)), 2 * lim)
             sparse == FirstN(Ranked(SparseScored(pts)), 2 * lim)
             ids == {dense[i].id : i \in 1..Len(dense)}
                        \cup {sparse[i].id : i \in 1..Len(sparse)}
             fused == {[id |-> i,
                        score |-> RAdd(RrfTerm(dense, i), RrfTerm(sparse, i))]
                       : i \in ids}
         IN  ReturnedHits(FirstN(Ranked(AboveThreshold(fused, threshold)), lim))

\* _collection_supports_hybrid: the collection has the sparse vector.
collection_supports_hybrid(col) == col.sparse

\* _collection_has_named_vectors: the vectors configuration is a dict.
collection_has_named_vectors(col) == col.named

\* search(collection_name, query_vector, limit, min_score).
search(col, pts, lim, threshold) ==
    IF collection_has_named_vectors(col)
    THEN QueryPoints(col, pts, "dense", lim, threshold)
    ELSE QueryPoints(col, pts, "", lim, threshold)

\* hybrid_search that falls back only when the collection has no sparse
\* vector and the store has no encoder either.
hybrid_search_unless_both(encoder, col, pts, lim, threshold) ==
    IF ~collection_supports_hybrid(col) /\ ~encoder
    THEN search(col, pts, lim, threshold)
    ELSE IF ~encoder THEN Raised
    ELSE QueryFusion(col, pts, lim, threshold)

\* hybrid_search(collection_name, query_vector, query_text, limit,
\* min_score): dense-only search when the collection has no sparse vector
\* or the store has no sparse encoder, the fused query otherwise.
hybrid_search(encoder, col, pts, lim, threshold) ==
    IF ~collection_supports_hybrid(col) \/ ~encoder
    THEN search(col, pts, lim, threshold)
    ELSE QueryFusion(col, pts, lim, threshold)

\* A connected store, a collection and the arguments of a query.
InitSearch ==
    /\ sparse_encoder \in BOOLEAN
    /\ target \in Targets
    /\ stored_points \in PointSets
    /\ limit \in 1..MaxLimit
    /\ min_score \in MinScores
    /\ search_result = NotCalled
    /\ hybrid_result = NotCalled

Search ==
    /\ ~search_result.called
    /\ search_result' = search(target, stored_points, limit, min_score)
    /\ UNCHANGED <<sparse_encoder, target, stored_points, limit, min_score,
                   hybrid_result>>
    /\ UNCHANGED not_search

HybridSearch ==
    /\ ~hybrid_result.called
    /\ hybrid_result' = hybrid_search(sparse_encoder, target, stored_points,
                                      limit, min_score)
    /\ UNCHANGED <<sparse_encoder, target, stored_points, limit, min_score,
                   search_result>>
    /\ UNCHANGED not_search

NextSearch ==
    \/ Search
    \/ HybridSearch

SearchInit == InitSearch /\ IdleChunker /\ IdleIndex /\ IdleEncoder /\ IdleIdentity /\ IdleEmbed /\ IdleEnsure /\ IdleDelete /\ IdleEngine /\ IdleTier

SearchSpec == SearchInit /\ [][NextSearch]_vars


\* Sparse retrieval is unavailable: the collection has no sparse vector,
\* or the store was built with hybrid search disabled.
SparseUnavailable == ~target.sparse \/ ~sparse_encoder

\* C20: when the collection has no sparse vector or the store was built
\* with hybrid disabled, hybrid_search does not raise, and what it returned
\* is what search returned for the same collection, limit and min_score.
C20_HybridFallsBackToDense ==
    (SparseUnavailable /\ hybrid_result.called) =>
        /\ ~hybrid_result.raised
        /\ search_result.called => hybrid_result.hits = search_result.hits

\* Both searches ran on a collection with named vectors and no sparse
\* vector, in a store that has an encoder, and returned a, b.
C20_Witness ==
    /\ sparse_encoder /\ target.named /\ ~target.sparse
    /\ hybrid_result.called /\ search_result.called
    /\ Len(hybrid_result.hits) = 2
    /\ hybrid_result.hits[1].id = Str_IdA
    /\ hybrid_result.hits[2].id = Str_IdB


\* hybrid_search took the fused query on a collection that has the named
\* dense vector and the sparse vector.
Fused ==
    /\ hybrid_result.called
    /\ ~SparseUnavailable
    /\ target.named

\* The rank of a point in the dense list and in the sparse list, counted
\* from 0: the number of points that score higher.
DenseRank(p) == Cardinality({q \in stored_points : q.dense > p.dense})
SparseRank(p) == Cardinality({q \in stored_points : q.sparse > p.sparse})

InDenseList(p) == DenseRank(p) < 2 * limit
InSparseList(p) == p.sparse > 0 /\ SparseRank(p) < 2 * limit

\* sum over the lists of 1 / (rank_offset + rank), with rank_offset 2.
RrfScore(p) ==
    RAdd(IF InDenseList(p) THEN Rat(1, 2 + DenseRank(p)) ELSE FromInt(0),
         IF InSparseList(p) THEN Rat(1, 2 + SparseRank(p)) ELSE FromInt(0))

PassesMinScore(p) ==
    min_score = <<>> \/ ~RLess(RrfScore(p), Rat(min_score[1], 100))

HitIds(res) == {res.hits[i].id : i \in 1..Len(res.hits)}

PositionOfHit(res, id) == CHOOSE i \in 1..Len(res.hits) : res.hits[i].id = id

RequestMinScores == {<<>>, <<0>>, <<60>>, <<80>>}

\* RAGConfig.similarity_threshold, in hundredths.
Thresholds == {70, 80}

\* x or y for an Optional[float] x: y when x is None or 0.0.
OrElse(x, y) == IF x = <<>> \/ x[1] = 0 THEN y ELSE x[1]

\* A connected engine, a collection of the store and a request.
InitEngine ==
    /\ sparse_encoder \in BOOLEAN
    /\ target \in Targets
    /\ stored_points \in PointSets
    /\ limit = 0
    /\ min_score = <<>>
    /\ search_result = NotCalled
    /\ hybrid_result = NotCalled
    /\ search_request \in [min_score : RequestMinScores, limit : 1..MaxLimit]
    /\ similarity_threshold \in Thresholds
    /\ srch_pc = "idle"
    /\ embed_count = 0
    /\ search_response = <<>>

\* search() up to the query embedding: ensure_collection and
\* embedding_client.embed(request.query).
EmbedQuery ==
    /\ srch_pc = "idle"
    /\ embed_count' = embed_count + 1
    /\ srch_pc' = "embedded"
    /\ UNCHANGED <<search_request, similarity_threshold, search_response>>
    /\ UNCHANGED not_engine

\* The rest of search(): min_score = request.min_score or
\* config.similarity_threshold, vector_db.search, and the response.
SearchStore ==
    /\ srch_pc = "embedded"
    /\ limit' = search_request.limit
    /\ min_score' = <<OrElse(search_request.min_score, similarity_threshold)>>
    /\ search_result' = search(target, stored_points, limit', min_score')
    /\ search_response' = search_result'.hits
    /\ srch_pc' = IF search_result'.raised THEN "raised" ELSE "done"
    /\ UNCHANGED <<search_request, similarity_threshold, embed_count>>
    /\ UNCHANGED <<sparse_encoder, target, stored_points, hybrid_result>>
    /\ UNCHANGED <<chunker_vars, index_vars, encoder_vars, identity_vars,
                   embed_vars, ensure_vars, delete_vars, tier_vars>>

NextEngine ==
    \/ EmbedQuery
    \/ SearchStore

EngineInit == InitEngine /\ IdleChunker /\ IdleIndex /\ IdleEncoder /\ IdleIdentity /\ IdleEmbed /\ IdleEnsure /\ IdleDelete /\ IdleTier

EngineSpec == EngineInit /\ [][NextEngine]_vars


\* C28: RAGQueryEngine.search has embedded the query once, has passed to
\* the store the request's min_score when the request has one, 0.0
\* included, and the configured similarity_threshold when it has none, and
\* returns the store's hits in the store's order.
C28_MinScoreOfRequest ==
    srch_pc = "done" =>
        /\ embed_count = 1
        /\ search_request.min_score # <<>> =>
               min_score = search_request.min_score
        /\ search_request.min_score = <<>> =>
               min_score = <<similarity_threshold>>
        /\ limit = search_request.limit
        /\ search_response = search_result.hits


----------------------------------------------------------------------------
\* TierRunner.run_tier with WebScraper.fetch and GitHubFetcher.fetch

\* The largest max_retries of the configurations tried (the default is 3).
MaxFetchRetries == 3

\* The configurations: IndexingConfig puts no constraint on max_retries, so
\* 0 is one of them; request_delay is in tenths of a second (default 0.5).
IndexingConfigs ==
    [max_retries : 0..MaxFetchRetries, request_delay : {1, 5}]

\* The source types of a tier.
SourceTypes == {"web", "github"}

\* The URLs of a tier, as TierConfig.get_urls lists them.
UrlLists == {<<>>, <<"u1">>, <<"u1", "u2">>}

\* What one GET can do: answer with a success status, answer with an error
\* status (raise_for_status raises HTTPStatusError), or raise something
\* else.
HttpOutcomes ==
    { [kind |-> "ok", status_code |-> 200, message |-> ""],
      [kind |-> "status", status_code |-> 404, message |-> ""],
      [kind |-> "status", status_code |-> 503, message |-> ""],
      [kind |-> "error", status_code |-> 0, message |-> "timed out"] }

\* f"HTTP {e.response.status_code}"
HttpErrorText(status_code) ==
    CASE status_code = 404 -> "HTTP 404"
      [] status_code = 503 -> "HTTP 503"
      [] OTHER -> "HTTP"

\* The error and the status code of the FetchResult of a failed attempt.
ErrorOf(outcome) ==
    IF outcome.kind = "status" THEN <<HttpErrorText(outcome.status_code)>>
    ELSE <<outcome.message>>

StatusOf(outcome) ==
    IF outcome.kind = "status" THEN <<outcome.status_code>> ELSE <<>>

\* The fetcher _fetch_all selects.
Fetcher == IF tier_source_type = "github" THEN "github" ELSE "web"

\* The sleep of the retry loop after the failed attempt numbered nth
\* (from 0).
RetrySleepFlat(nth) == indexing_config.request_delay

RetrySleep(nth) == indexing_config.request_delay * (nth + 1)

InitTier ==
    /\ indexing_config \in IndexingConfigs
    /\ tier_source_type \in SourceTypes
    /\ url_items \in UrlLists
    /\ tier_pc = "run_tier"
    /\ fetch_pos = 0
    /\ fetch_attempt = 0
    /\ http_log = <<>>
    /\ tier_sleeps = <<>>
    /\ fetch_results = <<>>
    /\ indexing_result = <<>>

\* run_tier up to the fetches: the result is initialized, and a tier without
\* URLs returns at once.
RunTier ==
    /\ tier_pc = "run_tier"
    /\ indexing_result' =
           [total_urls |-> Len(url_items),
            successful_fetches |-> 0,
            failed_fetches |-> 0,
            errors |-> IF Len(url_items) = 0
                       THEN << [message |-> "No URLs to process",
                                url |-> "", error |-> <<>>] >>
                       ELSE <<>>]
    /\ tier_pc' = IF Len(url_items) = 0 THEN "done" ELSE "fetch"
    /\ fetch_pos' = 1
    /\ UNCHANGED <<indexing_config, tier_source_type, url_items,
                   fetch_attempt, http_log, tier_sleeps, fetch_results>>
    /\ UNCHANGED not_tier

\* fetch returns fetch_result: _fetch_all appends it, sleeps request_delay
\* and goes to the next URL. slept is the sleeps up to the return.
FetchReturns(fetch_result, slept) ==
    /\ fetch_results' = Append(fetch_results, fetch_result)
    /\ tier_sleeps' = Append(slept, [url |-> fetch_result.url,
                                     seconds |-> indexing_config.request_delay,
                                     by |-> "_fetch_all"])
    /\ fetch_attempt' = 0
    /\ fetch_pos' = fetch_pos + 1
    /\ tier_pc' = IF fetch_pos = Len(url_items) THEN "count" ELSE "fetch"

\* One pass of fetch's retry loop, for either fetcher: the GET, then the
\* return of a successful FetchResult, the return of a failed one after the
\* last attempt, or the sleep before the next attempt.
Fetch(fetcher, outcome) ==
    /\ tier_pc = "fetch"
    /\ fetch_attempt < indexing_config.max_retries
    /\ LET url == url_items[fetch_pos]
       IN /\ http_log' = Append(http_log, [url |-> url, outcome |-> outcome])
          /\ IF outcome.kind = "ok"
             THEN FetchReturns([url |-> url, success |-> TRUE,
                                status_code |-> <<outcome.status_code>>,
                                error |-> <<>>, source |-> fetcher],
                               tier_sleeps)
             ELSE IF fetch_attempt = indexing_config.max_retries - 1
             THEN FetchReturns([url |-> url, success |-> FALSE,
                                status_code |-> StatusOf(outcome),
                                error |-> ErrorOf(outcome),
                                source |-> <<>>],
                               tier_sleeps)
             ELSE /\ tier_sleeps' =
                         Append(tier_sleeps,
                                [url |-> url,
                                 seconds |-> RetrySleep(fetch_attempt),
                                 by |-> "fetch"])
                  /\ fetch_attempt' = fetch_attempt + 1
                  /\ UNCHANGED <<fetch_results, fetch_pos, tier_pc>>
    /\ UNCHANGED <<indexing_config, tier_source_type, url_items,
                   indexing_result>>
    /\ UNCHANGED not_tier

\* WebScraper.fetch, for the tiers that are not of source type github.
WebScraperFetch(outcome) ==
    /\ Fetcher = "web"
    /\ Fetch("web", outcome)

\* GitHubFetcher.fetch, for the tiers of source type github.
GitHubFetcherFetch(outcome) ==
    /\ Fetcher = "github"
    /\ Fetch("github", outcome)

\* The return after the loop, reached when the loop made no pass.
MaxRetriesExceeded ==
    /\ tier_pc = "fetch"
    /\ fetch_attempt >= indexing_config.max_retries
    /\ FetchReturns([url |-> url_items[fetch_pos], success |-> FALSE,
                     status_code |-> <<>>,
                     error |-> <<"Max retries exceeded">>,
                     source |-> <<>>],
                    tier_sleeps)
    /\ UNCHANGED <<indexing_config, tier_source_type, url_items, http_log,
                   indexing_result>>
    /\ UNCHANGED not_tier

\* The results that succeeded, and those that failed.
SuccessfulResults == SelectSeq(fetch_results, LAMBDA r : r.success)

FailedResults == SelectSeq(fetch_results, LAMBDA r : ~r.success)

\* f"Failed to fetch {r.url}: {r.error}" for every failed result.
FailedEntries ==
    [i \in 1..Len(FailedResults) |->
        [message |-> "Failed to fetch", url |-> FailedResults[i].url,
         error |-> FailedResults[i].error]]

\* run_tier after the fetches: the counts and the errors.
CountFetches ==
    /\ tier_pc = "count"
    /\ indexing_result' =
           [indexing_result EXCEPT
               !.successful_fetches = Len(SuccessfulResults),
               !.failed_fetches =
                   indexing_result.total_urls - Len(SuccessfulResults),
               !.errors = @ \o FailedEntries]
    /\ tier_pc' = "done"
    /\ UNCHANGED <<indexing_config, tier_source_type, url_items, fetch_pos,
                   fetch_attempt, http_log, tier_sleeps, fetch_results>>
    /\ UNCHANGED not_tier

NextTier ==
    \/ RunTier
    \/ \E outcome \in HttpOutcomes : WebScraperFetch(outcome)
    \/ \E outcome \in HttpOutcomes : GitHubFetcherFetch(outcome)
    \/ MaxRetriesExceeded
    \/ CountFetches

TierInit == InitTier /\ IdleChunker /\ IdleIndex /\ IdleEncoder /\ IdleIdentity /\ IdleEmbed /\ IdleEnsure /\ IdleSearch /\ IdleDelete /\ IdleEngine

TierSpec == TierInit /\ [][NextTier]_vars

\* The requests made for url, in order, and the sleeps of its retry loop.
RequestsFor(url) == SelectSeq(http_log, LAMBDA q : q.url = url)

RetrySleepsFor(url) ==
    SelectSeq(tier_sleeps, LAMBDA z : z.url = url /\ z.by = "fetch")

\* fetch_results[i] is what the claim says of the fetch of url_items[i].
FetchedAsClaimed(i) ==
    LET fetch_result == fetch_results[i]
        made == RequestsFor(url_items[i])
        slept == RetrySleepsFor(url_items[i])
    IN /\ fetch_result.url = url_items[i]
       /\ Len(made) <= indexing_config.max_retries
       /\ \A k \in 1..(Len(made) - 1) : made[k].outcome.kind # "ok"
       /\ fetch_result.success <=>
              (made # <<>> /\ made[Len(made)].outcome.kind = "ok")
       /\ (~fetch_result.success /\ made # <<>>) =>
              /\ Len(made) = indexing_config.max_retries
              /\ fetch_result.error = ErrorOf(made[Len(made)].outcome)
              /\ fetch_result.status_code =
                     StatusOf(made[Len(made)].outcome)
       /\ Len(slept) = IF made = <<>> THEN 0 ELSE Len(made) - 1
       /\ \A k \in 1..Len(slept) :
              slept[k].seconds = indexing_config.request_delay * k

\* C30: every fetch that returned made at most max_retries requests,
\* succeeded exactly when its last request was the first successful one,
\* slept request_delay*k after its k-th failed attempt that was not the
\* last, and failed with the error of its last attempt; once the fetches
\* are over every URL has its FetchResult; and when run_tier is done the
\* counts are the numbers of successful and failed results, they add up to
\* total_urls, and errors holds, in order, one entry for each failed URL
\* (and nothing else when the tier has URLs).
C30_FetchesAlwaysReturn ==
    /\ \A i \in 1..Len(fetch_results) : FetchedAsClaimed(i)
    /\ tier_pc \in {"count", "done"} => Len(fetch_results) = Len(url_items)
    /\ tier_pc = "done" =>
           /\ indexing_result.total_urls = Len(url_items)
           /\ indexing_result.successful_fetches = Len(SuccessfulResults)
           /\ indexing_result.failed_fetches = Len(FailedResults)
           /\ indexing_result.successful_fetches
                  + indexing_result.failed_fetches
                  = indexing_result.total_urls
           /\ SelectSeq(indexing_result.errors,
                        LAMBDA e : e.message = "Failed to fetch")
                  = FailedEntries
           /\ indexing_result.total_urls > 0 =>
                  Len(indexing_result.errors)
                      = indexing_result.failed_fetches

\* run_tier is done with three tries allowed: u1 came at the third request,
\* after sleeps of request_delay and twice request_delay, and u2 failed
\* three times, the last time with HTTP 503, which is the one entry of
\* errors.
C30_Witness ==
    /\ tier_pc = "done"
    /\ indexing_config.max_retries = 3
    /\ Len(fetch_results) = 2
    /\ fetch_results[1].success
    /\ Len(RequestsFor("u1")) = 3
    /\ Len(RetrySleepsFor("u1")) = 2
    /\ ~fetch_results[2].success
    /\ RequestsFor("u2")[1].outcome.kind = "error"
    /\ fetch_results[2].error = <<"HTTP 503">>
    /\ Len(indexing_result.errors) = 1

=============================================================================
